---- MODULE Spec2Model ----
(***************************************************************************)
(* Model of the hierarchical chunking and retrieval-strategy subsystem of  *)
(* rag-engine: header classification, query-intent detection, smart chunk  *)
(* retrieval, the search pipeline and header-based PDF chunking.            *)
(*                                                                         *)
(* Three specifications share this module:                                 *)
(*   SpecText   - the two pure text classifiers applied to bounded inputs  *)
(*   SpecDetect - ContentStrategySelector.detect_content_type              *)
(*   SpecSearch - QueryService.search over a bounded vector store          *)
(*   SpecChunk  - HierarchicalChunkingService over bounded PDF documents   *)
(***************************************************************************)
EXTENDS Integers, Sequences, FiniteSets, TLC

VARIABLES
    \* --- text classifiers ---
    text_op,        \* "idle" | "classify" | "intent": the last call made
    text_in,        \* its argument
    text_out,       \* its result
    \* --- search pipeline ---
    store,          \* points of the queried vector-store collection
    request,        \* arguments of the last search call
    search_calls,   \* vector searches issued by the last search call, in order
    retrieved,      \* list returned by _smart_chunk_retrieval in that call
    response,       \* what search returned
    faults,         \* the collaborator calls that threw during that call
    raised,         \* TRUE iff an exception escaped search
    search_pc,      \* "idle" | "new" | "done": position of the call
    pipeline,       \* the collaborators' behaviour in that call and the candidate
                    \* list after each stage of the pipeline
    \* --- chunking ---
    pdf,            \* the document handed to chunk_pdf_hierarchically
    headers,        \* headers extracted from it
    chunks,         \* the chunk list returned
    rechunked,      \* the chunk list a second run over the same document returned
    uuid_next,      \* the number of uuid4 values drawn so far
    chunk_pc,       \* "new" | "done" | "again"
    \* --- ingestion ---
    link_env,       \* what the collaborators do for each stored file
    link_batch,     \* the items handed to link_content
    link_responses, \* the list link_content returned
    link_raised,    \* TRUE iff an exception escaped link_content
    link_trace,     \* per response: what _generate_embedding_and_document did
    collection_files, \* file ids linked to the collection
    linked_points,  \* documents uploaded to the vector store, in order
    chunk_cache,    \* per file id: the chunk cache file
    link_pc,        \* "idle" | "new" | "done"
    call_env,       \* per concurrent call: what the collaborators do
    call_pc,        \* per concurrent call: its position
    call_documents, \* per concurrent call: its local documents
    chunk_computations, \* number of times a file was processed into documents
    ops_done,       \* number of calls made on the collection so far
    last_success,   \* per file id: the most recent successful operation on it
    last_call,      \* the most recent call and the state it started from
    \* --- quiz jobs ---
    jobs,           \* QuizJobService._jobs: per job id, the job or NoJob
    worker_pc,      \* per job id: the position of its generate_quiz_async run
    worker_result,  \* per job id: what query_service.search gave the run
    status_response, \* what the last get_job_status_response call returned
    \* --- collection-files mapping ---
    mapping,        \* collection_files.json: per collection key, the file ids
    updates         \* per concurrent CacheManager call: its arguments, position and local mapping

text_vars   == <<text_op, text_in, text_out>>
search_vars == <<store, request, faults, search_calls, retrieved, response, raised, search_pc,
                  pipeline>>
chunk_vars  == <<pdf, headers, chunks, rechunked, uuid_next, chunk_pc>>
link_vars   == <<link_env, link_batch, link_responses, link_raised, link_trace,
                  collection_files, linked_points, link_pc>>
call_vars   == <<call_env, call_pc, call_documents, chunk_computations>>
ops_vars    == <<ops_done, last_success, last_call>>
ingest_vars == <<link_vars, call_vars, chunk_cache, ops_vars>>
quiz_vars   == <<jobs, worker_pc, worker_result, status_response>>
mapping_vars == <<mapping, updates>>
service_vars == <<quiz_vars, mapping_vars>>
vars        == <<text_vars, search_vars, chunk_vars, ingest_vars, service_vars>>

None == "None"

(***************************************************************************)
(* Python string primitives, computed character by character.              *)
(***************************************************************************)
UpperChars == <<"A","B","C","D","E","F","G","H","I","J","K","L","M",
                "N","O","P","Q","R","S","T","U","V","W","X","Y","Z">>
LowerChars == <<"a","b","c","d","e","f","g","h","i","j","k","l","m",
                "n","o","p","q","r","s","t","u","v","w","x","y","z">>

SeqRange(f) == {f[i] : i \in 1..Len(f)}

CharAt(s, i) == SubSeq(s, i, i)

LowerMap == [c \in SeqRange(UpperChars) |-> LowerChars[CHOOSE k \in 1..26 : UpperChars[k] = c]]

LowerChar(c) == IF c \in DOMAIN LowerMap THEN LowerMap[c]
                ELSE IF c = "Â" THEN "â"
                ELSE c

RECURSIVE lower(_)
lower(s) == IF Len(s) = 0 THEN "" ELSE LowerChar(CharAt(s, 1)) \o lower(SubSeq(s, 2, Len(s)))

IsSpace(c) == c \in {" ", "\n", "\t"}

RECURSIVE lstrip(_)
lstrip(s) == IF Len(s) > 0 /\ IsSpace(CharAt(s, 1)) THEN lstrip(SubSeq(s, 2, Len(s))) ELSE s

RECURSIVE rstrip(_)
rstrip(s) == IF Len(s) > 0 /\ IsSpace(CharAt(s, Len(s))) THEN rstrip(SubSeq(s, 1, Len(s) - 1)) ELSE s

strip(s) == rstrip(lstrip(s))

\* Python's `pat in s`
Contains(s, pat) ==
    \E i \in 1..(Len(s) - Len(pat) + 1) : SubSeq(s, i, i + Len(pat) - 1) = pat

StartsWith(s, pat) == Len(s) >= Len(pat) /\ SubSeq(s, 1, Len(pat)) = pat

(***************************************************************************)
(* ChunkType (models/api_models.py)                                        *)
(***************************************************************************)
CONCEPT  == "concept"
EXAMPLE  == "example"
QUESTION == "question"
OTHER_TYPE == "other"
ChunkType == {CONCEPT, EXAMPLE, QUESTION, OTHER_TYPE}

(***************************************************************************)
(* HierarchicalChunkingService: header text -> chunk type                  *)
(***************************************************************************)
example_header_patterns ==
    <<"example", "sample", "worked", "demonstration", "illustration", "case study">>
question_header_patterns ==
    <<"exercise", "problem", "question", "checkpoint", "practice", "review", "test yourself">>

\* A slip of the classifier: the QUESTION keywords tested before the EXAMPLE ones.
classify_question_first(header_text) ==
    LET header_lower == lower(header_text) IN
    IF \E i \in 1..Len(question_header_patterns) : Contains(header_lower, question_header_patterns[i])
    THEN QUESTION
    ELSE IF \E i \in 1..Len(example_header_patterns) : Contains(header_lower, example_header_patterns[i])
    THEN EXAMPLE
    ELSE CONCEPT

classify_chunk_type_from_header(header_text) ==
    LET header_lower == lower(header_text) IN
    IF \E i \in 1..Len(example_header_patterns) : Contains(header_lower, example_header_patterns[i])
    THEN EXAMPLE
    ELSE IF \E i \in 1..Len(question_header_patterns) : Contains(header_lower, question_header_patterns[i])
    THEN QUESTION
    ELSE CONCEPT

(***************************************************************************)
(* QueryService: query text -> intent                                      *)
(* A pattern is a set of literal alternatives, anchored at the start of    *)
(* the string (a leading ^) or searched anywhere.                          *)
(***************************************************************************)
Anchored(alts) == [anchored |-> TRUE,  alts |-> alts]
Anywhere(alts) == [anchored |-> FALSE, alts |-> alts]

concept_patterns == <<
    Anchored({"what is", "what are", "what does", "what do"}),
    Anchored({"explain"}),
    Anchored({"define"}),
    Anchored({"describe"}),
    Anywhere({"definition of"}),
    Anywhere({"meaning of"}),
    Anywhere({"concept of"}),
    Anywhere({"understanding"}),
    Anywhere({"tell me about"}) >>

example_patterns == <<
    Anywhere({"example"}),
    Anywhere({"show me"}),
    Anywhere({"demonstrate"}),
    Anywhere({"illustration"}),
    Anywhere({"sample"}),
    Anywhere({"case study"}) >>

question_patterns == <<
    Anchored({"how do", "how to", "how can"}),
    Anchored({"solve"}),
    Anchored({"calculate"}),
    Anchored({"find"}),
    Anchored({"determine"}),
    Anywhere({"practice"}),
    Anywhere({"exercise"}),
    Anywhere({"problem"}) >>

\* re.search(pattern, s, re.IGNORECASE) for the literal (lowercase) patterns
\* above, given the lowercased subject
re_search(pattern, s_lower) ==
    IF pattern.anchored
    THEN \E a \in pattern.alts : StartsWith(s_lower, a)
    ELSE \E a \in pattern.alts : Contains(s_lower, a)

\* some pattern of the list is found in s, case-insensitively
AnyMatch(patterns, s) ==
    \E t \in {lower(s)} : \E i \in 1..Len(patterns) : re_search(patterns[i], t)

\* A slip of the detector: the QUESTION family tested before CONCEPT and EXAMPLE.
detect_query_intent_question_first(query) ==
    CHOOSE intent \in {
        IF AnyMatch(question_patterns, query_lower) THEN QUESTION
        ELSE IF AnyMatch(concept_patterns, query_lower) THEN CONCEPT
        ELSE IF AnyMatch(example_patterns, query_lower) THEN EXAMPLE
        ELSE None
        : query_lower \in {strip(lower(query))} } : TRUE

\* A slip of the detector: the query is not stripped before matching.
detect_query_intent_no_strip(query) ==
    CHOOSE intent \in {
        IF AnyMatch(concept_patterns, query_lower) THEN CONCEPT
        ELSE IF AnyMatch(example_patterns, query_lower) THEN EXAMPLE
        ELSE IF AnyMatch(question_patterns, query_lower) THEN QUESTION
        ELSE None
        : query_lower \in {lower(query)} } : TRUE

\* QueryService._detect_query_intent (the query is lowercased and stripped once)
detect_query_intent(query) ==
    CHOOSE intent \in {
        IF AnyMatch(concept_patterns, query_lower) THEN CONCEPT
        ELSE IF AnyMatch(example_patterns, query_lower) THEN EXAMPLE
        ELSE IF AnyMatch(question_patterns, query_lower) THEN QUESTION
        ELSE None
        : query_lower \in {strip(lower(query))} } : TRUE

(***************************************************************************)
(* Bounded inputs of the text classifiers                                  *)
(***************************************************************************)
MaxHeaderWords == 2
MaxQueryParts  == 2

HeaderWords == {
    "Example", "Sample", "Worked", "Demonstration", "Illustration", "Case Study",
    "Exercise", "Problem", "Question", "Checkpoint", "Practice", "Review",
    "Test Yourself", "Introduction", "5.1", "Newton's Law", "PROBLEMS", "Preview",
    "Case", "Study" }

QueryParts == {
    "What is", "What does", "Explain", " Explain", "Define", "Describe",
    "the definition of", "meaning of", "concept of", "understanding", "Tell me about",
    "an example", "Show me", "demonstrate", "illustration", "sample", "case study",
    "How do", "how to", "Solve", "Calculate", "Find", "Determine",
    "practice", "exercise", "the problem", "Physics overview", "force", "please" }

RECURSIVE JoinWords(_)
JoinWords(ws) ==
    IF Len(ws) = 0 THEN ""
    ELSE IF Len(ws) = 1 THEN ws[1]
    ELSE ws[1] \o " " \o JoinWords(Tail(ws))

Phrases(words, n) == UNION {{JoinWords(ws) : ws \in [1..k -> words]} : k \in 1..n}

HeaderTexts == Phrases(HeaderWords, MaxHeaderWords)
QueryTexts  == Phrases(QueryParts, MaxQueryParts)

(***************************************************************************)
(* Specification SpecText: the classifiers applied to the bounded inputs   *)
(***************************************************************************)
Pending == "pending"
NoResponse == [kind |-> "pending"]

\* collaborators that all work, with feedback switched off
NoFaults ==
    [embed |-> FALSE, searches |-> {}, rerank |-> "unavailable",
     feedback |-> [enabled |-> FALSE, throws |-> FALSE, relevant |-> <<>>], respond |-> FALSE]

\* the record of a pipeline that has not run
NoPipeline ==
    [env |-> NoFaults, reranked |-> <<>>, rerank_scores |-> <<>>, fused |-> <<>>,
     relevant |-> <<>>, llm_called |-> FALSE]

TextIdle   == text_op = "idle" /\ text_in = "" /\ text_out = None
SearchIdle == /\ store = <<>> /\ request = None /\ faults = {} /\ search_calls = <<>>
              /\ retrieved = <<>> /\ response = NoResponse /\ raised = FALSE
              /\ search_pc = "idle" /\ pipeline = NoPipeline
ChunkIdle  == /\ pdf = None /\ headers = <<>> /\ chunks = <<>> /\ chunk_pc = "idle"
              /\ rechunked = <<>> /\ uuid_next = 0
LinkIdle   == /\ link_env = <<>> /\ link_batch = <<>> /\ link_responses = <<>>
              /\ link_raised = FALSE /\ link_trace = <<>> /\ collection_files = {}
              /\ linked_points = <<>> /\ link_pc = "idle"
CallIdle   == /\ call_env = <<>> /\ call_pc = <<>> /\ call_documents = <<>>
              /\ chunk_computations = 0
OpsIdle    == ops_done = 0 /\ last_success = <<>> /\ last_call = <<>>
IngestIdle == LinkIdle /\ CallIdle /\ OpsIdle /\ chunk_cache = <<>>
QuizIdle   == /\ jobs = <<>> /\ worker_pc = <<>> /\ worker_result = <<>>
              /\ status_response = <<>>
MappingIdle == mapping = <<>> /\ updates = <<>>
ServiceIdle == QuizIdle /\ MappingIdle

\* a call is about to be made on one of the bounded inputs
InitText ==
    /\ \/ text_op = "classify" /\ text_in \in HeaderTexts
       \/ text_op = "intent"   /\ text_in \in QueryTexts
    /\ text_out = Pending
    /\ SearchIdle /\ ChunkIdle /\ ServiceIdle /\ IngestIdle

Classify ==
    /\ text_op = "classify" /\ text_out = Pending
    /\ text_out' = classify_chunk_type_from_header(text_in)
    /\ UNCHANGED <<text_op, text_in, search_vars, chunk_vars, ingest_vars, service_vars>>

DetectIntent ==
    /\ text_op = "intent" /\ text_out = Pending
    /\ text_out' = detect_query_intent(text_in)
    /\ UNCHANGED <<text_op, text_in, search_vars, chunk_vars, ingest_vars, service_vars>>

NextText == Classify \/ DetectIntent

SpecText == InitText /\ [][NextText]_vars

(***************************************************************************)
(* The keyword and pattern lists as the specification states them          *)
(***************************************************************************)
HasExampleKeyword(t) ==
    \E k \in {"example", "sample", "worked", "demonstration", "illustration", "case study"} :
        Contains(t, k)
HasQuestionKeyword(t) ==
    \E k \in {"exercise", "problem", "question", "checkpoint", "practice", "review", "test yourself"} :
        Contains(t, k)

ListedConcept(q) ==
    \/ \E a \in {"what is", "what are", "what does", "what do", "explain", "define", "describe"} :
          StartsWith(q, a)
    \/ \E a \in {"definition of", "meaning of", "concept of", "tell me about"} : Contains(q, a)
ListedExample(q) ==
    \E a \in {"example", "show me", "demonstrate", "sample", "case study"} : Contains(q, a)
ListedQuestion(q) ==
    \/ \E a \in {"how do", "how to", "how can", "solve", "calculate", "find", "determine"} :
          StartsWith(q, a)
    \/ \E a \in {"practice", "exercise", "problem"} : Contains(q, a)

\* the families as the code has them: two patterns more than the listed ones
ConceptFamily(q) == ListedConcept(q) \/ Contains(q, "understanding")
ExampleFamily(q) == ListedExample(q) \/ Contains(q, "illustration")
QuestionFamily(q) == ListedQuestion(q)

\* C6: classify lowercases the header and answers EXAMPLE when an EXAMPLE
\* keyword occurs in it, else QUESTION when a QUESTION keyword occurs, else
\* CONCEPT; a header with keywords of both sets is EXAMPLE; never OTHER.
C6_ClassifyExampleBeforeQuestion ==
    text_op = "classify" /\ text_out # Pending =>
        LET t == lower(text_in) IN
        /\ text_out = (IF HasExampleKeyword(t) THEN EXAMPLE
                       ELSE IF HasQuestionKeyword(t) THEN QUESTION
                       ELSE CONCEPT)
        /\ (HasExampleKeyword(t) /\ HasQuestionKeyword(t) => text_out = EXAMPLE)
        /\ text_out # OTHER_TYPE

C6_Witness ==
    text_op = "classify" /\ text_in = "Sample Problem" /\ text_out = EXAMPLE

\* C7: detect_intent tests CONCEPT, then EXAMPLE, then QUESTION and returns
\* the first family with a matching pattern.
C7_IntentFirstFamilyWins ==
    text_op = "intent" /\ text_out # Pending =>
        LET q == strip(lower(text_in)) IN
        /\ (ConceptFamily(q) => text_out = CONCEPT)
        /\ (~ConceptFamily(q) /\ ExampleFamily(q) => text_out = EXAMPLE)
        /\ (~ConceptFamily(q) /\ ~ExampleFamily(q) /\ QuestionFamily(q) => text_out = QUESTION)

C7_Witness ==
    /\ text_op = "intent" /\ text_in = "What is the problem" /\ text_out = CONCEPT
    /\ ConceptFamily(strip(lower(text_in))) /\ QuestionFamily(strip(lower(text_in)))

\* C8 as stated: a non-null intent is returned only when one of the patterns
\* the specification lists matches the lowercased query.
C8_NullUnlessListedPattern ==
    text_op = "intent" /\ text_out # Pending =>
        LET q == strip(lower(text_in)) IN
        (text_out # None => ListedConcept(q) \/ ListedExample(q) \/ ListedQuestion(q))

\* C8 amended: the intent is null exactly when no pattern of the code's three
\* families matches: the listed patterns, `understanding` (CONCEPT) and
\* `illustration` (EXAMPLE).
C8_NullIffNoCodePattern ==
    text_op = "intent" /\ text_out # Pending =>
        LET q == strip(lower(text_in)) IN
        (text_out = None <=> ~(ConceptFamily(q) \/ ExampleFamily(q) \/ QuestionFamily(q)))

C8_Witness ==
    text_op = "intent" /\ text_in = "Physics overview" /\ text_out = None

(***************************************************************************)
(* Vector store and smart retrieval (QdrantRepository, QueryService)       *)
(*                                                                         *)
(* A point of the queried collection is [id, chunk_type, score, text,      *)
(* document_id]; score is its similarity to the query vector, in units of  *)
(* 1/ScoreOne so that the score arithmetic of the pipeline stays exact.    *)
(***************************************************************************)
ScoreOne == 12000

Min(a, b) == IF a < b THEN a ELSE b

\* s[:n]
Take(s, n) == SubSeq(s, 1, Min(Len(s), n))

RECURSIVE SelectSeq2(_, _)
\* the points of s whose chunk type is chunk_type, in order (all when no filter)
SelectSeq2(s, chunk_type) ==
    IF s = <<>> THEN <<>>
    ELSE IF chunk_type = None \/ Head(s).chunk_type = chunk_type
         THEN <<Head(s)>> \o SelectSeq2(Tail(s), chunk_type)
         ELSE SelectSeq2(Tail(s), chunk_type)

\* insert x behind every element whose score is >= x.score
RECURSIVE InsertDesc(_, _)
InsertDesc(sorted, x) ==
    IF sorted = <<>> THEN <<x>>
    ELSE IF Head(sorted).score >= x.score
         THEN <<Head(sorted)>> \o InsertDesc(Tail(sorted), x)
         ELSE <<x>> \o sorted

\* list.sort(key=score, reverse=True): stable, non-increasing scores
RECURSIVE SortByScoreDesc(_)
SortByScoreDesc(s) ==
    IF s = <<>> THEN <<>>
    ELSE InsertDesc(SortByScoreDesc(SubSeq(s, 1, Len(s) - 1)), s[Len(s)])

\* QdrantRepository.query_collection: the `limit` best points that pass the
\* chunk_type filter, best first; any exception of the search gives [].
format_search_results(hits) ==
    [i \in 1..Len(hits) |->
        [id |-> hits[i].id, score |-> hits[i].score, chunk_type |-> hits[i].chunk_type,
         text |-> hits[i].text, document_id |-> hits[i].document_id, feedback_score |-> None]]

query_collection(points, limit, chunk_type, fails) ==
    IF fails THEN <<>>
    ELSE format_search_results(Take(SortByScoreDesc(SelectSeq2(points, chunk_type)), limit))

SearchCall(chunk_type, limit, returned) ==
    [chunk_type |-> chunk_type, limit |-> limit, returned |-> returned]

secondary_type(intent) ==
    IF intent = CONCEPT THEN EXAMPLE
    ELSE IF intent = EXAMPLE THEN CONCEPT
    ELSE EXAMPLE

\* the vector searches, of those issued, whose backend call threw
SearchFaults(fails, calls) ==
    {IF i = 1 THEN "search1" ELSE "search2" : i \in fails \cap (1..Len(calls))}

\* A slip of the retrieval: the combined list is returned without the sort.
smart_chunk_retrieval_unsorted(points, query_text, limit, fails) ==
    LET intent == detect_query_intent(query_text) IN
    IF intent = None
    THEN LET r == query_collection(points, limit, None, 1 \in fails) IN
         [calls |-> <<SearchCall(None, limit, r)>>, results |-> r]
    ELSE LET primary   == query_collection(points, limit \div 2, intent, 1 \in fails)
             secondary == query_collection(points, limit \div 2, secondary_type(intent), 2 \in fails)
         IN  [calls   |-> <<SearchCall(intent, limit \div 2, primary),
                            SearchCall(secondary_type(intent), limit \div 2, secondary)>>,
              results |-> Take(primary \o secondary, limit)]

\* A slip of the retrieval: the primary search asks for the larger half of an
\* odd limit.
smart_chunk_retrieval_larger_primary(points, query_text, limit, fails) ==
    LET intent == detect_query_intent(query_text) IN
    IF intent = None
    THEN LET r == query_collection(points, limit, None, 1 \in fails) IN
         [calls |-> <<SearchCall(None, limit, r)>>, results |-> r]
    ELSE LET primary   == query_collection(points, limit - limit \div 2, intent, 1 \in fails)
             secondary == query_collection(points, limit \div 2, secondary_type(intent), 2 \in fails)
         IN  [calls   |-> <<SearchCall(intent, limit - limit \div 2, primary),
                            SearchCall(secondary_type(intent), limit \div 2, secondary)>>,
              results |-> Take(SortByScoreDesc(primary \o secondary), limit)]

\* A slip of the retrieval: the secondary search repeats the primary chunk type.
smart_chunk_retrieval_same_type(points, query_text, limit, fails) ==
    LET intent == detect_query_intent(query_text) IN
    IF intent = None
    THEN LET r == query_collection(points, limit, None, 1 \in fails) IN
         [calls |-> <<SearchCall(None, limit, r)>>, results |-> r]
    ELSE LET primary   == query_collection(points, limit \div 2, intent, 1 \in fails)
             secondary == query_collection(points, limit \div 2, intent, 2 \in fails)
         IN  [calls   |-> <<SearchCall(intent, limit \div 2, primary),
                            SearchCall(intent, limit \div 2, secondary)>>,
              results |-> Take(SortByScoreDesc(primary \o secondary), limit)]

\* QueryService._smart_chunk_retrieval; `fails` is the set of vector searches
\* (1 = first issued, 2 = second) whose backend call throws.
\* The result carries the searches issued and the list returned.
smart_chunk_retrieval(points, query_text, limit, fails) ==
    LET intent == detect_query_intent(query_text) IN
    IF intent = None
    THEN LET r == query_collection(points, limit, None, 1 \in fails) IN
         [calls |-> <<SearchCall(None, limit, r)>>, results |-> r]
    ELSE LET primary   == query_collection(points, limit \div 2, intent, 1 \in fails)
             secondary == query_collection(points, limit \div 2, secondary_type(intent), 2 \in fails)
         IN  [calls   |-> <<SearchCall(intent, limit \div 2, primary),
                            SearchCall(secondary_type(intent), limit \div 2, secondary)>>,
              results |-> Take(SortByScoreDesc(primary \o secondary), limit)]

(***************************************************************************)
(* Specification SpecRetrieve: _smart_chunk_retrieval on a bounded store   *)
(***************************************************************************)
MaxStorePoints == 2
MaxLimit       == 4

ScoreLevels == {1200, 4800, 9600}
RetrieveQueries == {"What is force", "Show me an example", "Solve the problem", "Physics overview"}

Point(i, chunk_type, score, text) ==
    [id |-> i, chunk_type |-> chunk_type, score |-> score, text |-> text, document_id |-> i]

\* stores of exactly n points over the given kinds of point
Stores(n, kinds) ==
    {[i \in 1..n |-> Point(i, k[i].chunk_type, k[i].score, k[i].text)] : k \in [1..n -> kinds]}

RetrieveKinds ==
    {[chunk_type |-> t, score |-> sc, text |-> "alpha"] : t \in {CONCEPT, EXAMPLE, QUESTION}, sc \in ScoreLevels}

Request(query_text, limit, quiz) == [query_text |-> query_text, limit |-> limit, quiz |-> quiz]

InitRetrieve ==
    /\ store \in Stores(MaxStorePoints, RetrieveKinds)
    /\ request \in {Request(q, l, FALSE) : q \in RetrieveQueries, l \in 1..MaxLimit}
    /\ faults = {}
    /\ search_calls = <<>> /\ retrieved = <<>> /\ response = NoResponse /\ raised = FALSE
    /\ search_pc = "new" /\ pipeline = NoPipeline
    /\ TextIdle /\ ChunkIdle /\ ServiceIdle /\ IngestIdle

SmartChunkRetrieval ==
    /\ search_pc = "new"
    /\ search_pc' = "done"
    /\ \E fails \in SUBSET {1, 2} :
       \E r \in {smart_chunk_retrieval(store, request.query_text, request.limit, fails)} :
          /\ search_calls' = r.calls
          /\ retrieved'    = r.results
          /\ faults'       = SearchFaults(fails, r.calls)
    /\ UNCHANGED <<store, request, response, raised, pipeline, text_vars, chunk_vars, ingest_vars, service_vars>>

NextRetrieve == SmartChunkRetrieval

SpecRetrieve == InitRetrieve /\ [][NextRetrieve]_vars

\* the intent of the request, from the pattern families
RequestIntent ==
    LET q == strip(lower(request.query_text)) IN
    IF ConceptFamily(q) THEN CONCEPT
    ELSE IF ExampleFamily(q) THEN EXAMPLE
    ELSE IF QuestionFamily(q) THEN QUESTION
    ELSE None

IsSortedDesc(s) == \A i \in 1..(Len(s) - 1) : s[i].score >= s[i + 1].score

\* C9: with a null intent exactly one unfiltered search for `limit` results is
\* issued; otherwise exactly two filtered searches for limit/2 results each,
\* the first on the intent's chunk type and the second on its complement
\* (CONCEPT -> EXAMPLE, EXAMPLE -> CONCEPT, QUESTION -> EXAMPLE).
C9_SearchesIssuedByIntent ==
    search_pc = "done" =>
        IF RequestIntent = None
        THEN /\ Len(search_calls) = 1
             /\ search_calls[1].chunk_type = None
             /\ search_calls[1].limit = request.limit
        ELSE /\ Len(search_calls) = 2
             /\ search_calls[1].chunk_type = RequestIntent
             /\ search_calls[1].limit = request.limit \div 2
             /\ search_calls[2].limit = request.limit \div 2
             /\ search_calls[2].chunk_type =
                    (CASE RequestIntent = CONCEPT  -> EXAMPLE
                       [] RequestIntent = EXAMPLE  -> CONCEPT
                       [] RequestIntent = QUESTION -> EXAMPLE)

C9_Witness ==
    /\ search_pc = "done" /\ RequestIntent = QUESTION /\ request.limit = 4
    /\ Len(search_calls) = 2
    /\ search_calls[1].returned # <<>> /\ search_calls[2].returned # <<>>

\* C10: for a non-null intent the returned list is the primary and secondary
\* results together, in non-increasing score order, cut to `limit`: at most
\* `limit` entries, each one from one of the two searches.
C10_MergedSortedTruncated ==
    search_pc = "done" /\ RequestIntent # None =>
        LET combined == search_calls[1].returned \o search_calls[2].returned IN
        /\ Len(retrieved) <= request.limit
        /\ Len(retrieved) = Min(Len(combined), request.limit)
        /\ IsSortedDesc(retrieved)
        /\ SeqRange(retrieved) \subseteq SeqRange(combined)
        /\ \A i, j \in 1..Len(retrieved) : i # j => retrieved[i].id # retrieved[j].id
        /\ \A c \in SeqRange(combined) : c \notin SeqRange(retrieved) =>
               \A r \in SeqRange(retrieved) : r.score >= c.score

C10_Witness ==
    /\ search_pc = "done" /\ RequestIntent # None
    /\ search_calls[1].returned # <<>> /\ search_calls[2].returned # <<>>
    /\ retrieved # search_calls[1].returned \o search_calls[2].returned
    /\ Len(retrieved) = request.limit

(***************************************************************************)
(* The search pipeline (QueryService.search)                               *)
(***************************************************************************)
RELEVANCE_THRESHOLD == 3000     \* 0.25
RERANKER_TOP_K      == 5
MaxChunks           == 5        \* chunks[:5]

\* A slip of the filter: nothing is discarded.
filter_relevant_results_keep_all(results) ==
    LET RECURSIVE keep(_)
        keep(s) == IF s = <<>> THEN <<>>
                   ELSE <<Head(s)>> \o keep(Tail(s))
    IN keep(results)

filter_relevant_results(results) ==
    LET RECURSIVE keep(_)
        keep(s) == IF s = <<>> THEN <<>>
                   ELSE IF Head(s).score >= RELEVANCE_THRESHOLD
                        THEN <<Head(s)>> \o keep(Tail(s))
                        ELSE keep(Tail(s))
    IN keep(results)

is_valid_text(text) == text # "" /\ strip(text) # ""

\* the first MaxChunks results with a valid text not seen before, as (source, text)
extract_relevant_chunks(results) ==
    LET RECURSIVE walk(_, _)
        walk(s, seen) ==
            IF s = <<>> THEN <<>>
            ELSE IF is_valid_text(Head(s).text) /\ Head(s).text \notin seen
                 THEN <<[source |-> Head(s).document_id, text |-> Head(s).text]>>
                          \o walk(Tail(s), seen \cup {Head(s).text})
                 ELSE walk(Tail(s), seen)
    IN Take(walk(results, {}), MaxChunks)

calculate_confidence(results) ==
    IF results = <<>> THEN 0
    ELSE CHOOSE m \in {results[i].score : i \in 1..Len(results)} :
            \A i \in 1..Len(results) : results[i].score <= m

Reverse(s) == [i \in 1..Len(s) |-> s[Len(s) + 1 - i]]

\* CrossEncoder.predict for one (query, text) pair: a score that depends on
\* the pair only and is unrelated to the similarity score of the vector store
cross_encoder_score(query, text) == Len(text) * (ScoreOne \div 10)

\* Reranker.rerank: the documents are sorted by their cross-encoder score,
\* best first, and the best RERANKER_TOP_K are returned as they came in (the
\* cross-encoder score is not stored on them); when the model call throws the
\* documents come back in their original order, cut to RERANKER_TOP_K.
rerank(query, documents, mode) ==
    IF mode = "throws" THEN Take(documents, RERANKER_TOP_K)
    ELSE LET scored_docs == [i \in 1..Len(documents) |->
                                [doc |-> documents[i],
                                 score |-> cross_encoder_score(query, documents[i].text)]]
             sorted == SortByScoreDesc(scored_docs)
         IN Take([i \in 1..Len(sorted) |-> sorted[i].doc], RERANKER_TOP_K)

\* FeedbackRepository.calculate_feedback_scores for one document id
feedback_score_of(doc_id, relevant_feedback) ==
    LET hits     == {i \in 1..Len(relevant_feedback) : doc_id \in relevant_feedback[i].doc_ids}
        positive == Cardinality({i \in hits : relevant_feedback[i].label = 1})
        total    == Cardinality(hits)
    IN IF total = 0 THEN ScoreOne \div 2
       ELSE ((positive + 1) * ScoreOne) \div (total + 2)

\* A slip of the feedback stage: without relevant feedback every candidate is
\* blended with the default feedback score.
apply_feedback_scoring_default_blend(results, fb) ==
    IF ~fb.enabled \/ results = <<>> THEN results
    ELSE IF fb.throws THEN results
    ELSE LET blended ==
                [i \in 1..Len(results) |->
                    LET original_score == results[i].score
                        rerank_score   == results[i].score
                        fscore         == feedback_score_of(results[i].document_id, fb.relevant)
                    IN [results[i] EXCEPT
                          !.score = (45 * original_score + 35 * rerank_score) \div 100
                                        + fscore \div 10 + fscore \div 10,
                          !.feedback_score = fscore]]
         IN SortByScoreDesc(blended)

\* A slip of the feedback stage: its exception handler returns no results.
apply_feedback_scoring_drop_on_error(results, fb) ==
    IF ~fb.enabled \/ results = <<>> THEN results
    ELSE IF fb.throws THEN <<>>
    ELSE IF fb.relevant = <<>> THEN results
    ELSE LET blended ==
                [i \in 1..Len(results) |->
                    LET original_score == results[i].score
                        rerank_score   == results[i].score
                        fscore         == feedback_score_of(results[i].document_id, fb.relevant)
                    IN [results[i] EXCEPT
                          !.score = (45 * original_score + 35 * rerank_score) \div 100
                                        + fscore \div 10 + fscore \div 10,
                          !.feedback_score = fscore]]
         IN SortByScoreDesc(blended)

\* QueryService._apply_feedback_scoring; fb = [enabled, throws, relevant].
\* rerank_score is result.get("rerank_score", original_score): no stage of
\* the pipeline stores a rerank_score, so it is the original score.
apply_feedback_scoring(results, fb) ==
    IF ~fb.enabled \/ results = <<>> THEN results
    ELSE IF fb.throws THEN results
    ELSE IF fb.relevant = <<>> THEN results
    ELSE LET blended ==
                [i \in 1..Len(results) |->
                    LET original_score == results[i].score
                        rerank_score   == results[i].score
                        fscore         == feedback_score_of(results[i].document_id, fb.relevant)
                    IN [results[i] EXCEPT
                          !.score = (45 * original_score + 35 * rerank_score) \div 100
                                        + fscore \div 10 + fscore \div 10,
                          !.feedback_score = fscore]]
         IN SortByScoreDesc(blended)

ContextNotFound ==
    [kind |-> "query", answer |-> "Context not found", confidence |-> 0,
     is_relevant |-> FALSE, chunks |-> <<>>]

Ok(value)  == [exc |-> FALSE, value |-> value]
Exc        == [exc |-> TRUE,  value |-> None]

\* QueryService._create_query_response; respond_throws: the language model,
\* the critic or the response model raises while the answer is built
create_query_response(results, respond_throws) ==
    LET relevant_results == filter_relevant_results(results)
        chunk_list       == extract_relevant_chunks(relevant_results)
    IN IF relevant_results = <<>> THEN Ok(ContextNotFound)
       ELSE IF chunk_list = <<>>
       THEN Ok([kind |-> "query", answer |-> "Error: Stored content is corrupted or unreadable",
                confidence |-> 0, is_relevant |-> FALSE, chunks |-> <<>>])
       ELSE IF respond_throws THEN Exc
       ELSE Ok([kind |-> "query", answer |-> "generated", is_relevant |-> TRUE,
                confidence |-> calculate_confidence(relevant_results), chunks |-> chunk_list])

create_error_quiz_response(error_message) ==
    [kind |-> "quiz", answer |-> error_message, confidence |-> 0,
     is_relevant |-> FALSE, chunks |-> <<>>, questions |-> 0,
     quiz_id |-> "error", main_summary |-> "Error: " \o error_message]

\* QueryService._create_quiz_response: generate_answer is called with a
\* quiz_config keyword that LlmClient.generate_answer does not accept, so the
\* call raises TypeError whenever it is reached.
create_quiz_response(results) ==
    LET relevant_results == filter_relevant_results(results)
        chunk_list       == extract_relevant_chunks(relevant_results)
    IN IF relevant_results = <<>> THEN Ok(create_error_quiz_response("Context not found"))
       ELSE IF chunk_list = <<>>
       THEN Ok(create_error_quiz_response("Error: Stored content is corrupted or unreadable"))
       ELSE Exc

\* the body of the try block of search: the searches issued, the list
\* retrieved, the outcome, and the collaborator calls that threw on the way
search_body(points, req, f) ==
    IF f.embed THEN [calls |-> <<>>, results |-> <<>>, out |-> Exc, thrown |-> {"embed"},
                     trace |-> [NoPipeline EXCEPT !.env = f]]
    ELSE LET r   == smart_chunk_retrieval(points, req.query_text, req.limit, f.searches)
             rk  == f.rerank # "unavailable" /\ r.results # <<>>
             rr  == IF rk THEN rerank(req.query_text, r.results, f.rerank) ELSE r.results
             fr  == apply_feedback_scoring(rr, f.feedback)
             out == IF req.quiz THEN create_quiz_response(fr)
                    ELSE create_query_response(fr, f.respond)
             rel == filter_relevant_results(fr)
         IN [calls |-> r.calls, results |-> r.results, out |-> out,
             trace |-> [env |-> f, reranked |-> rr,
                        rerank_scores |->
                            IF rk /\ f.rerank = "ok"
                            THEN [i \in 1..Len(rr) |->
                                    [id |-> rr[i].id,
                                     score |-> cross_encoder_score(req.query_text, rr[i].text)]]
                            ELSE <<>>,
                        fused |-> fr, relevant |-> rel,
                        llm_called |-> ~req.quiz /\ extract_relevant_chunks(rel) # <<>>],
             thrown |-> SearchFaults(f.searches, r.calls)
                        \cup (IF rk /\ f.rerank = "throws" THEN {"rerank"} ELSE {})
                        \cup (IF f.feedback.enabled /\ rr # <<>> /\ f.feedback.throws
                              THEN {"feedback"} ELSE {})
                        \cup (IF out.exc THEN {"respond"} ELSE {})]

\* A slip of search: no handler around the pipeline, its exceptions escape.
search_without_handler(points, req, f) ==
    LET b == search_body(points, req, f) IN
    [calls |-> b.calls, results |-> b.results, thrown |-> b.thrown, trace |-> b.trace,
     raised |-> b.out.exc, response |-> b.out.value]

\* QueryService.search
search(points, req, f) ==
    LET b == search_body(points, req, f) IN
    [calls |-> b.calls, results |-> b.results, thrown |-> b.thrown, trace |-> b.trace,
     raised |-> FALSE,
     response |-> IF b.out.exc
                  THEN IF req.quiz THEN create_error_quiz_response("exception")
                       ELSE ContextNotFound
                  ELSE b.out.value]

(***************************************************************************)
(* Specification SpecSearch: one search call on a bounded store, with      *)
(* every combination of collaborator failures                              *)
(***************************************************************************)
MaxSearchPoints == 2
MaxSearchLimit  == 2

SearchQueries == {"What is force", "Solve the problem", "Physics overview"}

SearchKinds == {
    [chunk_type |-> CONCEPT,  score |-> 9600, text |-> "alpha"],
    [chunk_type |-> CONCEPT,  score |-> 1200, text |-> "beta"],
    [chunk_type |-> EXAMPLE,  score |-> 4800, text |-> "alpha"],
    [chunk_type |-> EXAMPLE,  score |-> 9600, text |-> ""],
    [chunk_type |-> QUESTION, score |-> 4800, text |-> "gamma"] }

FeedbackLists == {
    <<>>,
    <<[doc_ids |-> {1}, label |-> 1]>>,
    <<[doc_ids |-> {1, 2}, label |-> 0]>> }

FeedbackOutcomes ==
    {[enabled |-> FALSE, throws |-> FALSE, relevant |-> <<>>],
     [enabled |-> TRUE,  throws |-> TRUE,  relevant |-> <<>>]}
    \cup {[enabled |-> TRUE, throws |-> FALSE, relevant |-> fl] : fl \in FeedbackLists}

Faults ==
    {[embed |-> TRUE, searches |-> {}, rerank |-> "unavailable",
      feedback |-> [enabled |-> FALSE, throws |-> FALSE, relevant |-> <<>>], respond |-> FALSE]}
    \cup [embed : {FALSE}, searches : SUBSET {1, 2}, rerank : {"unavailable", "ok", "throws"},
          feedback : FeedbackOutcomes, respond : BOOLEAN]

InitSearch ==
    /\ store \in UNION {Stores(n, SearchKinds) : n \in 0..MaxSearchPoints}
    /\ request \in {Request(q, l, z) : q \in SearchQueries, l \in 1..MaxSearchLimit, z \in BOOLEAN}
    /\ faults = {}
    /\ search_calls = <<>> /\ retrieved = <<>> /\ response = NoResponse /\ raised = FALSE
    /\ search_pc = "new" /\ pipeline = NoPipeline
    /\ TextIdle /\ ChunkIdle /\ ServiceIdle /\ IngestIdle

Search ==
    /\ search_pc = "new"
    /\ search_pc' = "done"
    /\ \E f \in Faults : \E r \in {search(store, request, f)} :
          /\ faults'       = r.thrown
          /\ search_calls' = r.calls
          /\ retrieved'    = r.results
          /\ response'     = r.response
          /\ raised'       = r.raised
          /\ pipeline'     = r.trace
    /\ UNCHANGED <<store, request, text_vars, chunk_vars, ingest_vars, service_vars>>

NextSearch == Search

SpecSearch == InitSearch /\ [][NextSearch]_vars

IsNotFoundResponse(resp) ==
    IF request.quiz
    THEN resp.kind = "quiz" /\ ~resp.is_relevant /\ resp.confidence = 0 /\ resp.questions = 0
    ELSE /\ resp.kind = "query" /\ resp.answer = "Context not found"
         /\ ~resp.is_relevant /\ resp.confidence = 0 /\ resp.chunks = <<>>

\* every vector search the call issued threw
AllSearchesThrew ==
    search_calls # <<>> /\ \A i \in 1..Len(search_calls) :
        (IF i = 1 THEN "search1" ELSE "search2") \in faults

\* C1 as stated: search never raises, and whenever the embedding call, a
\* vector search or a later stage (reranker, feedback store, answer building)
\* throws, the response is the 'Context not found' response (the error quiz
\* response in quiz mode).
C1_AnyFailureGivesNotFound ==
    search_pc = "done" =>
        /\ ~raised
        /\ (faults # {} => IsNotFoundResponse(response))

\* C1 amended: search never raises; when the embedding call or the answer
\* building throws, or every vector search issued throws, the response is
\* the 'Context not found' response (the error quiz response in quiz mode).
C1_SearchNeverRaises ==
    search_pc = "done" =>
        /\ ~raised
        /\ ("embed" \in faults \/ "respond" \in faults \/ AllSearchesThrew)
              => IsNotFoundResponse(response)

C1_Witness ==
    /\ search_pc = "done" /\ ~raised
    /\ faults = {"respond"} /\ ~request.quiz
    /\ \E i \in 1..Len(retrieved) : retrieved[i].score >= RELEVANCE_THRESHOLD /\ retrieved[i].text # ""
    /\ IsNotFoundResponse(response)

\* a result of the candidate list s has the given id
HasId(s, id) == \E i \in 1..Len(s) : s[i].id = id

\* C11: every result an answer is built from has a score of at least the
\* relevance threshold, the results below it are discarded, and when all
\* results are below it the response is 'Context not found' (not relevant,
\* confidence 0, no chunks) and the language model is not called.
C11_RelevanceFilter ==
    (search_pc = "done" /\ ~pipeline.env.embed) =>
        /\ \A i \in 1..Len(pipeline.relevant) : pipeline.relevant[i].score >= RELEVANCE_THRESHOLD
        /\ \A i \in 1..Len(pipeline.fused) :
              pipeline.fused[i].score >= RELEVANCE_THRESHOLD
                  <=> HasId(pipeline.relevant, pipeline.fused[i].id)
        /\ \A c \in 1..Len(response.chunks) :
              \E i \in 1..Len(pipeline.relevant) :
                  /\ pipeline.relevant[i].text = response.chunks[c].text
                  /\ pipeline.relevant[i].document_id = response.chunks[c].source
        /\ (\A i \in 1..Len(pipeline.fused) : pipeline.fused[i].score < RELEVANCE_THRESHOLD)
              => (IsNotFoundResponse(response) /\ ~pipeline.llm_called)

\* an answer was built from a list that held a result below the threshold
C11_Witness ==
    /\ search_pc = "done"
    /\ \E i \in 1..Len(pipeline.fused) : pipeline.fused[i].score < RELEVANCE_THRESHOLD
    /\ response.is_relevant
    /\ pipeline.llm_called
    /\ Len(response.chunks) = 1

\* the feedback stage of the call was skipped: switched off, or the store threw
FeedbackSkipped == ~pipeline.env.feedback.enabled \/ pipeline.env.feedback.throws

\* C12: with the reranker unavailable the list leaving the rerank stage is the
\* list that entered it, with the feedback store unavailable or throwing the
\* list leaving the feedback stage is the list that entered it (members,
\* order, scores), and search still answers.
C12_SoftDegradation ==
    (search_pc = "done" /\ ~pipeline.env.embed) =>
        /\ pipeline.env.rerank = "unavailable" => pipeline.reranked = retrieved
        /\ FeedbackSkipped => pipeline.fused = pipeline.reranked
        /\ (pipeline.env.rerank = "unavailable" \/ FeedbackSkipped) =>
              /\ ~raised
              /\ response # NoResponse
              /\ (/\ ~request.quiz
                  /\ ~pipeline.env.respond
                  /\ \E i \in 1..Len(pipeline.fused) :
                        /\ pipeline.fused[i].score >= RELEVANCE_THRESHOLD
                        /\ is_valid_text(pipeline.fused[i].text))
                 => response.is_relevant

\* both stages were skipped on a list of two candidates and an answer was given
C12_Witness ==
    /\ search_pc = "done"
    /\ pipeline.env.rerank = "unavailable"
    /\ pipeline.env.feedback.throws
    /\ "feedback" \in faults
    /\ Len(retrieved) = 2
    /\ pipeline.fused = retrieved
    /\ response.is_relevant

\* feedback fusion ran in the call
FusionApplied ==
    /\ search_pc = "done"
    /\ ~pipeline.env.embed
    /\ pipeline.env.feedback.enabled
    /\ ~pipeline.env.feedback.throws
    /\ pipeline.env.feedback.relevant # <<>>
    /\ pipeline.reranked # <<>>

\* (positives + 1) / (total + 2) over the relevant feedback naming doc_id, 0.5 without any
SmoothedFeedback(doc_id) ==
    LET fb    == pipeline.env.feedback.relevant
        named == {i \in 1..Len(fb) : doc_id \in fb[i].doc_ids}
        pos   == {i \in named : fb[i].label = 1}
    IN IF named = {} THEN ScoreOne \div 2
       ELSE ((Cardinality(pos) + 1) * ScoreOne) \div (Cardinality(named) + 2)

\* the score the rerank stage assigned to the candidate, its similarity when no rerank ran
AssignedRerankScore(doc) ==
    IF HasId(pipeline.rerank_scores, doc.id)
    THEN LET i == CHOOSE i \in 1..Len(pipeline.rerank_scores) : pipeline.rerank_scores[i].id = doc.id
         IN pipeline.rerank_scores[i].score
    ELSE doc.score

\* C18: when feedback fusion is applied every candidate's final score is
\* 0.45 * similarity + 0.35 * rerank score + 0.10 * feedback + 0.10 * feedback,
\* the rerank score being the one the rerank stage assigned, and the
\* candidates are sorted by final score, non-increasing.
C18_FusionFormula ==
    FusionApplied =>
        /\ Len(pipeline.fused) = Len(pipeline.reranked)
        /\ \A i \in 1..Len(pipeline.reranked) :
              LET doc == pipeline.reranked[i]
                  f   == SmoothedFeedback(doc.document_id)
              IN \E j \in 1..Len(pipeline.fused) :
                    /\ pipeline.fused[j].id = doc.id
                    /\ pipeline.fused[j].score =
                          (45 * doc.score + 35 * AssignedRerankScore(doc)) \div 100
                              + f \div 10 + f \div 10
        /\ IsSortedDesc(pipeline.fused)

(***************************************************************************)
(* PDF documents as pdfplumber presents them                               *)
(*                                                                         *)
(* A document is [valid, fonts, npages, lines]; lines is the sequence of   *)
(* its text lines in reading order, each [page, text], pages              *)
(* non-decreasing.  fonts says what page.chars carries:                    *)
(*   "none"    - no character has a 'size' (or there are no characters)    *)
(*   "uniform" - every character has the body size                         *)
(*   "styled"  - chapter titles, section titles and body text are set in   *)
(*               three sizes                                               *)
(* page.extract_text() is the lines of the page joined by "\n";            *)
(* page.chars are the characters of the lines, each with the size of its   *)
(* line and y0 = distance of the line from the BOTTOM of the page.         *)
(***************************************************************************)
ChapterLine == "Chapter 1 Forces"
SectionLine == "1.1-Example"
LongBody    == "Force equals mass times acceleration for every moving body."
ShortBody   == "See below."
LineTexts   == {ChapterLine, SectionLine, LongBody, ShortBody}

FontSize(fonts, text) ==
    IF fonts = "styled" /\ text = ChapterLine THEN 16
    ELSE IF fonts = "styled" /\ text = SectionLine THEN 13
    ELSE 10

\* the lines of page p (1-based), in reading order, with their position in the document
PageLines(doc, p) ==
    LET RECURSIVE walk(_)
        walk(i) == IF i > Len(doc.lines) THEN <<>>
                   ELSE IF doc.lines[i].page = p
                        THEN <<[pos |-> i, text |-> doc.lines[i].text]>> \o walk(i + 1)
                        ELSE walk(i + 1)
    IN walk(1)

\* y0 of the k-th line from the top of a page
LineY0(k) == 800 - 20 * k

RECURSIVE RemoveSpaces(_)
RemoveSpaces(s) ==
    IF Len(s) = 0 THEN ""
    ELSE IF IsSpace(CharAt(s, 1)) THEN RemoveSpaces(SubSeq(s, 2, Len(s)))
    ELSE CharAt(s, 1) \o RemoveSpaces(SubSeq(s, 2, Len(s)))

(***************************************************************************)
(* The two header regexes                                                  *)
(*   chapter_pattern  ^(?:chapter|ch\.?)\s*(\d+)[:\-\s]*(.+?)$   (re.I)     *)
(*   section_pattern  ^(\d+(?:\.\d+)+)[:\-\s]+(.+?)$                       *)
(* A match is [ok, num, title]; num is the text of group 1.                *)
(***************************************************************************)
IsDigit(c) == c \in {"0", "1", "2", "3", "4", "5", "6", "7", "8", "9"}
IsSep(c)   == c \in {":", "-"} \/ IsSpace(c)

\* length of the longest prefix of s[from..] made of characters satisfying the class
RECURSIVE RunOf(_, _, _)
RunOf(s, from, class) ==
    IF from <= Len(s)
       /\ (CASE class = "digit" -> IsDigit(CharAt(s, from))
             [] class = "sep"   -> IsSep(CharAt(s, from))
             [] class = "space" -> IsSpace(CharAt(s, from)))
    THEN 1 + RunOf(s, from + 1, class)
    ELSE 0

NoMatch == [ok |-> FALSE, num |-> None, title |-> None]

\* (\d+)[:\-\s]*(.+?)$ from position `from`, with the backtracking of the engine
chapter_tail(s, from) ==
    LET d    == RunOf(s, from, "digit")
        sp   == RunOf(s, from + d, "sep")
        rest == from + d + sp
    IN IF d = 0 THEN NoMatch
       ELSE IF rest <= Len(s)
            THEN [ok |-> TRUE, num |-> SubSeq(s, from, from + d - 1),
                  title |-> strip(SubSeq(s, rest, Len(s)))]
       ELSE IF sp > 0
            THEN [ok |-> TRUE, num |-> SubSeq(s, from, from + d - 1),
                  title |-> strip(SubSeq(s, Len(s), Len(s)))]
       ELSE IF d > 1
            THEN [ok |-> TRUE, num |-> SubSeq(s, from, from + d - 2),
                  title |-> SubSeq(s, Len(s), Len(s))]
       ELSE NoMatch

chapter_pattern_match(s) ==
    LET t == lower(s)
        try(prefix) ==
            IF StartsWith(t, prefix)
            THEN chapter_tail(s, Len(prefix) + 1 + RunOf(s, Len(prefix) + 1, "space"))
            ELSE NoMatch
    IN IF try("chapter").ok THEN try("chapter")
       ELSE IF try("ch.").ok THEN try("ch.")
       ELSE try("ch")

\* end of the longest (\d+(?:\.\d+)*) starting at from: position after it, 0 groups counted
RECURSIVE DottedEnd(_, _)
DottedEnd(s, from) ==
    IF from <= Len(s) /\ CharAt(s, from) = "." /\ RunOf(s, from + 1, "digit") > 0
    THEN DottedEnd(s, from + 1 + RunOf(s, from + 1, "digit"))
    ELSE from

section_pattern_match(s) ==
    LET d    == RunOf(s, 1, "digit")
        e    == DottedEnd(s, 1 + d)
        sp   == RunOf(s, e, "sep")
        rest == e + sp
    IN IF d = 0 \/ e = 1 + d \/ sp = 0 THEN NoMatch
       ELSE IF rest <= Len(s)
            THEN [ok |-> TRUE, num |-> SubSeq(s, 1, e - 1), title |-> strip(SubSeq(s, rest, Len(s)))]
       ELSE IF sp > 1
            THEN [ok |-> TRUE, num |-> SubSeq(s, 1, e - 1), title |-> strip(SubSeq(s, Len(s), Len(s)))]
       ELSE NoMatch

\* int(group 1); None is modelled as NoneNum, which int() of \d+ never yields
NoneNum == 0 - 1

RECURSIVE ParseInt(_)
ParseInt(digits) ==
    IF Len(digits) = 0 THEN 0
    ELSE 10 * ParseInt(SubSeq(digits, 1, Len(digits) - 1))
         + (CHOOSE v \in 0..9 : CharAt("0123456789", v + 1) = CharAt(digits, Len(digits)))

(***************************************************************************)
(* Structure extraction                                                    *)
(* A header is the dict of the code plus pos, the document line it was     *)
(* read from (0 for the synthesized header); pos is not used by the code.  *)
(***************************************************************************)
\* lines of page p grouped by y0 and sorted by y0 ascending: bottom line first;
\* the text is the non-blank characters joined
extract_lines_with_font_info(doc, p) ==
    LET page_lines == PageLines(doc, p)
        n == Len(page_lines)
    IN [j \in 1..n |->
          LET k == n - j + 1
          IN [text      |-> RemoveSpaces(page_lines[k].text),
              font_size |-> IF doc.fonts = "none" THEN 12
                            ELSE FontSize(doc.fonts, page_lines[k].text),
              y0        |-> LineY0(k),
              page      |-> p,
              pos       |-> page_lines[k].pos]]

RECURSIVE Flatten(_)
\* the lines of all pages, page after page
Flatten(pages) ==
    IF pages = <<>> THEN <<>> ELSE Head(pages) \o Flatten(Tail(pages))

\* number of characters of the document whose size is at most s
CharsUpTo(doc, s) ==
    LET RECURSIVE count(_)
        count(i) == IF i > Len(doc.lines) THEN 0
                    ELSE (IF FontSize(doc.fonts, doc.lines[i].text) <= s
                          THEN Len(doc.lines[i].text) ELSE 0) + count(i + 1)
    IN count(1)

\* font_sizes.sort(); font_sizes[len(font_sizes) // 2]
median_size(doc) ==
    LET sizes == {FontSize(doc.fonts, doc.lines[i].text) : i \in 1..Len(doc.lines)}
        total == CharsUpTo(doc, 16)
    IN CHOOSE s \in sizes :
          /\ CharsUpTo(doc, s) >= (total \div 2) + 1
          /\ \A t \in sizes : t < s => CharsUpTo(doc, t) < (total \div 2) + 1

default_header ==
    [type |-> "chapter", chapter_num |-> NoneNum, chapter_title |-> "Document Content",
     section_num |-> None, section_title |-> None, page |-> 1, y_position |-> 0,
     text |-> "Document Content", font_size |-> 12, pos |-> 0]

chapter_header(text, m, page, y, font_size, pos) ==
    [type |-> "chapter",
     chapter_num   |-> IF m.ok THEN ParseInt(m.num) ELSE NoneNum,
     chapter_title |-> IF m.ok THEN m.title ELSE text,
     section_num |-> None, section_title |-> None,
     page |-> page, y_position |-> y, text |-> text, font_size |-> font_size, pos |-> pos]

section_header(text, m, current_chapter, page, y, font_size, pos) ==
    [type |-> "section",
     chapter_num   |-> IF current_chapter = <<>> THEN NoneNum ELSE current_chapter[1].chapter_num,
     chapter_title |-> IF current_chapter = <<>> THEN None ELSE current_chapter[1].chapter_title,
     section_num   |-> IF m.ok THEN m.num ELSE None,
     section_title |-> IF m.ok THEN m.title ELSE text,
     page |-> page, y_position |-> y, text |-> text, font_size |-> font_size, pos |-> pos]

\* the loop over the lines of extract_headers_text_based; current_chapter is <<>> or <<header>>
RECURSIVE text_based_loop(_, _, _)
text_based_loop(lines, i, current_chapter) ==
    IF i > Len(lines) THEN <<>>
    ELSE LET line == strip(lines[i].text)
             cm   == chapter_pattern_match(line)
             sm   == section_pattern_match(line)
         IN IF line = "" THEN text_based_loop(lines, i + 1, current_chapter)
            ELSE IF cm.ok
                 THEN LET h == chapter_header(line, cm, lines[i].page, 0, 16, lines[i].pos)
                      IN <<h>> \o text_based_loop(lines, i + 1, <<h>>)
            ELSE IF sm.ok
                 THEN <<section_header(line, sm, current_chapter, lines[i].page, 0, 14, lines[i].pos)>>
                      \o text_based_loop(lines, i + 1, current_chapter)
            ELSE text_based_loop(lines, i + 1, current_chapter)

extract_headers_text_based(doc) ==
    LET per_page(p) == [k \in 1..Len(PageLines(doc, p)) |->
                           [text |-> PageLines(doc, p)[k].text, page |-> p,
                            pos |-> PageLines(doc, p)[k].pos]]
        found == text_based_loop(Flatten([p \in 1..doc.npages |-> per_page(p)]), 1, <<>>)
    IN IF found = <<>> THEN <<default_header>> ELSE found

\* the second pass of extract_headers_with_font_sizes; sizes are compared as
\* font_size >= median * 1.5 and median * 1.2 <= font_size < median * 1.5
RECURSIVE font_size_loop(_, _, _, _)
font_size_loop(lines, i, current_chapter, median) ==
    IF i > Len(lines) THEN <<>>
    ELSE LET text == strip(lines[i].text)
             font_size == lines[i].font_size
             is_chapter_header == 10 * font_size >= 15 * median
             is_section_header == 12 * median <= 10 * font_size /\ 10 * font_size < 15 * median
         IN IF Len(text) < 3 \/ Len(text) > 200
            THEN font_size_loop(lines, i + 1, current_chapter, median)
            ELSE IF is_chapter_header
                 THEN LET h == chapter_header(text, chapter_pattern_match(text), lines[i].page,
                                              lines[i].y0, font_size, lines[i].pos)
                      IN <<h>> \o font_size_loop(lines, i + 1, <<h>>, median)
            ELSE IF is_section_header
                 THEN <<section_header(text, section_pattern_match(text), current_chapter,
                                       lines[i].page, lines[i].y0, font_size, lines[i].pos)>>
                      \o font_size_loop(lines, i + 1, current_chapter, median)
            ELSE font_size_loop(lines, i + 1, current_chapter, median)

extract_headers_with_font_sizes(doc) ==
    IF doc.fonts = "none" \/ doc.lines = <<>>
    THEN extract_headers_text_based(doc)
    ELSE LET per_page(p) == extract_lines_with_font_info(doc, p)
             found == font_size_loop(Flatten([p \in 1..doc.npages |-> per_page(p)]), 1, <<>>, median_size(doc))
         IN IF found = <<>> THEN <<default_header>> ELSE found

(***************************************************************************)
(* Chunk building                                                          *)
(* A piece of content is [text, lines]: text is the string the code        *)
(* builds, lines the document lines (by position) that went into it.       *)
(* lines is not used by the code.                                          *)
(***************************************************************************)
RECURSIVE JoinWith(_, _)
\* sep.join(strings)
JoinWith(strings, sep) ==
    IF Len(strings) = 0 THEN ""
    ELSE IF Len(strings) = 1 THEN strings[1]
    ELSE strings[1] \o sep \o JoinWith(Tail(strings), sep)

\* page.extract_text() or ""
extract_text(doc, p) ==
    JoinWith([k \in 1..Len(PageLines(doc, p)) |-> PageLines(doc, p)[k].text], "\n")

\* the first line of page_lines that contains text, 0 when there is none
FirstLineWith(page_lines, text) ==
    IF \E k \in 1..Len(page_lines) : Contains(page_lines[k].text, text)
    THEN CHOOSE k \in 1..Len(page_lines) :
            /\ Contains(page_lines[k].text, text)
            /\ \A j \in 1..(k - 1) : ~Contains(page_lines[j].text, text)
    ELSE 0

\* the lines one page contributes to the content of header (next_header is <<>> or <<h>>)
page_part(doc, p, header, next_header) ==
    LET page_lines == PageLines(doc, p)
        end_page   == IF next_header # <<>> THEN next_header[1].page ELSE doc.npages
    IN IF p = header.page
       THEN LET i == FirstLineWith(page_lines, header.text)
            IN IF i > 0 THEN SubSeq(page_lines, i + 1, Len(page_lines)) ELSE page_lines
       ELSE IF p = end_page /\ next_header # <<>>
       THEN LET i == FirstLineWith(page_lines, next_header[1].text)
            IN IF i > 0 THEN SubSeq(page_lines, 1, i - 1) ELSE page_lines
       ELSE page_lines

extract_content_between_headers(doc, header, next_header) ==
    LET start_page == header.page
        end_page   == IF next_header # <<>> THEN next_header[1].page ELSE doc.npages
        last       == Min(end_page, doc.npages)
        part(p)    == page_part(doc, p, header, next_header)
        RECURSIVE texts(_)
        texts(p)   == IF p > last THEN <<>>
                      ELSE <<JoinWith([k \in 1..Len(part(p)) |-> part(p)[k].text], "\n")>>
                           \o texts(p + 1)
        RECURSIVE used(_)
        used(p)    == IF p > last THEN <<>> ELSE part(p) \o used(p + 1)
    IN [text  |-> JoinWith(texts(start_page), "\n"),
        lines |-> [k \in 1..Len(used(start_page)) |-> used(start_page)[k].pos]]

MIN_CHUNK_CHARS == 50

\* the variant that keeps every non-empty span
create_chunk_from_header_any_length(doc, i, header, next_header, chunk_size) ==
    \* <<>> is None, <<chunk>> a chunk; i is the index of header in the header list
    LET content == extract_content_between_headers(doc, header, next_header)
    IN IF content.text = ""
       THEN <<>>
       ELSE <<[text          |-> content.text,
               lines         |-> content.lines,
               header_index  |-> i,
               chunk_type    |-> classify_chunk_type_from_header(header.text),
               chapter_num   |-> header.chapter_num,
               chapter_title |-> header.chapter_title,
               section_num   |-> header.section_num,
               section_title |-> header.section_title,
               page_start    |-> header.page,
               page_end      |-> IF next_header # <<>> THEN next_header[1].page ELSE header.page]>>

create_chunk_from_header(doc, i, header, next_header, chunk_size) ==
    \* <<>> is None, <<chunk>> a chunk; i is the index of header in the header list
    LET content == extract_content_between_headers(doc, header, next_header)
    IN IF content.text = "" \/ Len(strip(content.text)) < MIN_CHUNK_CHARS
       THEN <<>>
       ELSE <<[text          |-> content.text,
               lines         |-> content.lines,
               header_index  |-> i,
               chunk_type    |-> classify_chunk_type_from_header(header.text),
               chapter_num   |-> header.chapter_num,
               chapter_title |-> header.chapter_title,
               section_num   |-> header.section_num,
               section_title |-> header.section_title,
               page_start    |-> header.page,
               page_end      |-> IF next_header # <<>> THEN next_header[1].page ELSE header.page]>>

\* re.split(r'(?<=[.!?])\s+', text)
split_sentences(text) ==
    LET RECURSIVE scan(_, _)
        scan(i, start) ==
            IF i > Len(text) THEN <<SubSeq(text, start, Len(text))>>
            ELSE IF i > 1 /\ IsSpace(CharAt(text, i)) /\ CharAt(text, i - 1) \in {".", "!", "?"}
                 THEN <<SubSeq(text, start, i - 1)>>
                      \o scan(i + RunOf(text, i, "space"), i + RunOf(text, i, "space"))
            ELSE scan(i + 1, start)
    IN scan(1, 1)

\* str.split()
split_words(text) ==
    LET RECURSIVE scan(_, _)
        scan(i, start) ==
            IF i > Len(text)
            THEN IF start <= Len(text) THEN <<SubSeq(text, start, Len(text))>> ELSE <<>>
            ELSE IF IsSpace(CharAt(text, i))
                 THEN (IF start < i THEN <<SubSeq(text, start, i - 1)>> ELSE <<>>)
                      \o scan(i + 1, i + 1)
            ELSE scan(i + 1, start)
    IN scan(1, 1)

basic_chunk(text, chunk_num) ==
    [text          |-> strip(text),
     lines         |-> <<>>,
     header_index  |-> 0,
     chunk_type    |-> CONCEPT,
     chapter_num   |-> NoneNum,
     chapter_title |-> "Document Content",
     section_num   |-> "Part " \o ToString(chunk_num),
     section_title |-> "Content Part " \o ToString(chunk_num),
     page_start    |-> NoneNum,
     page_end      |-> NoneNum]

create_basic_chunks(full_text, chunk_size, chunk_overlap) ==
    LET text      == strip(full_text)
        sentences == split_sentences(text)
        RECURSIVE loop(_, _, _)
        loop(i, current_chunk, chunk_num) ==
            IF i > Len(sentences)
            THEN IF strip(current_chunk) # "" THEN <<basic_chunk(current_chunk, chunk_num + 1)>>
                 ELSE <<>>
            ELSE IF Len(current_chunk) + Len(sentences[i]) > chunk_size /\ current_chunk # ""
                 THEN LET words == split_words(current_chunk)
                          overlap_words == IF Len(words) > chunk_overlap
                                           THEN SubSeq(words, Len(words) - chunk_overlap + 1, Len(words))
                                           ELSE words
                      IN <<basic_chunk(current_chunk, chunk_num + 1)>>
                         \o loop(i + 1, JoinWith(overlap_words, " ") \o " " \o sentences[i],
                                 chunk_num + 1)
            ELSE loop(i + 1,
                      IF current_chunk # "" THEN current_chunk \o " " \o sentences[i]
                      ELSE sentences[i],
                      chunk_num)
    IN IF text = "" THEN <<>> ELSE loop(1, "", 0)

\* the chunks of the header list hs, one header after the other
chunks_from_headers(doc, hs, chunk_size) ==
    LET RECURSIVE loop(_)
        loop(i) == IF i > Len(hs) THEN <<>>
                   ELSE create_chunk_from_header(doc, i, hs[i],
                            IF i + 1 <= Len(hs) THEN <<hs[i + 1]>> ELSE <<>>, chunk_size)
                        \o loop(i + 1)
    IN loop(1)

\* the document id every run is given
DOCUMENT_ID == "doc"

\* a chunk built from a header draws two uuid4 values; a chunk of the sliding
\* window (header_index 0) draws none
uuids_drawn(cs) == 2 * Cardinality({k \in 1..Len(cs) : cs[k].header_index > 0})

\* the variant that numbers a chunk's section by the topic id drawn for it
with_uuids_as_section_num(cs, drawn) ==
    [k \in 1..Len(cs) |->
        IF cs[k].header_index = 0
        THEN [topic_id |-> DOCUMENT_ID,
              chunk_id |-> DOCUMENT_ID \o "_chunk_" \o ToString(k)] @@ cs[k]
        ELSE [topic_id |-> ToString(drawn + 2 * k - 1),
              chunk_id |-> ToString(drawn + 2 * k)] @@
             [cs[k] EXCEPT !.section_num = ToString(drawn + 2 * k - 1)]]

\* the ids of the chunks: topic_id and then chunk_id from uuid4 for a chunk
\* built from a header, the document id and "<document id>_chunk_<n>" for a
\* chunk of the sliding window; drawn is the number of uuid4 values drawn before
with_uuids(cs, drawn) ==
    [k \in 1..Len(cs) |->
        IF cs[k].header_index = 0
        THEN [topic_id |-> DOCUMENT_ID,
              chunk_id |-> DOCUMENT_ID \o "_chunk_" \o ToString(k)] @@ cs[k]
        ELSE [topic_id |-> ToString(drawn + 2 * k - 1),
              chunk_id |-> ToString(drawn + 2 * k)] @@ cs[k]]

\* [headers, chunks]: the header list the run extracted and the list returned;
\* a file pdfplumber cannot open raises inside the try and gives []
chunk_pdf_hierarchically(doc, chunk_size, chunk_overlap) ==
    IF ~doc.valid THEN [headers |-> <<>>, chunks |-> <<>>]
    ELSE LET hs == extract_headers_with_font_sizes(doc)
             RECURSIVE full_text(_)
             full_text(p) == IF p > doc.npages THEN ""
                             ELSE (IF extract_text(doc, p) # ""
                                   THEN extract_text(doc, p) \o "\n" ELSE "") \o full_text(p + 1)
         IN IF hs = <<>>
            THEN [headers |-> hs,
                  chunks  |-> IF strip(full_text(1)) # ""
                              THEN create_basic_chunks(full_text(1), chunk_size, chunk_overlap)
                              ELSE <<>>]
            ELSE [headers |-> hs, chunks |-> chunks_from_headers(doc, hs, chunk_size)]

(***************************************************************************)
(* Specification of chunking: one PDF is chunked                           *)
(***************************************************************************)
MaxPages    == 3
MaxDocLines == 3

DEFAULT_CHUNK_SIZE    == 512
DEFAULT_CHUNK_OVERLAP == 50

FontModes == {"none", "uniform", "styled"}

\* the line sequences of n lines over npages pages, pages non-decreasing
RECURSIVE LineSeqs(_, _)
LineSeqs(n, npages) ==
    IF n = 0 THEN {<<>>}
    ELSE {Append(l, [page |-> p, text |-> t]) :
            <<l, p, t>> \in {x \in LineSeqs(n - 1, npages) \X (1..npages) \X LineTexts :
                               x[1] = <<>> \/ x[1][Len(x[1])].page <= x[2]}}

UnreadablePdf == [valid |-> FALSE, fonts |-> "none", npages |-> 1, lines |-> <<>>]

Pdfs ==
    {UnreadablePdf} \cup
    {[valid |-> TRUE, fonts |-> f, npages |-> np, lines |-> l] :
        <<f, np, l>> \in UNION {FontModes \X {np} \X UNION {LineSeqs(n, np) : n \in 0..MaxDocLines}
                                  : np \in 1..MaxPages}}

InitChunk ==
    /\ TextIdle
    /\ SearchIdle
    /\ IngestIdle /\ ServiceIdle
    /\ pdf \in Pdfs
    /\ headers = <<>>
    /\ chunks = <<>>
    /\ rechunked = <<>>
    /\ uuid_next = 0
    /\ chunk_pc = "new"

ChunkPdf ==
    /\ chunk_pc = "new"
    /\ \E r \in {chunk_pdf_hierarchically(pdf, DEFAULT_CHUNK_SIZE, DEFAULT_CHUNK_OVERLAP)} :
          /\ headers' = r.headers
          /\ chunks' = with_uuids(r.chunks, uuid_next)
          /\ uuid_next' = uuid_next + uuids_drawn(r.chunks)
    /\ chunk_pc' = "done"
    /\ UNCHANGED <<pdf, rechunked, text_vars, search_vars, ingest_vars, service_vars>>

\* the same document is chunked a second time with the same chunk_size and
\* chunk_overlap
ChunkPdfAgain ==
    /\ chunk_pc = "done"
    /\ \E r \in {chunk_pdf_hierarchically(pdf, DEFAULT_CHUNK_SIZE, DEFAULT_CHUNK_OVERLAP)} :
          /\ rechunked' = with_uuids(r.chunks, uuid_next)
          /\ uuid_next' = uuid_next + uuids_drawn(r.chunks)
    /\ chunk_pc' = "again"
    /\ UNCHANGED <<pdf, headers, chunks, text_vars, search_vars, ingest_vars, service_vars>>

NextChunk == ChunkPdf \/ ChunkPdfAgain

SpecChunk == InitChunk /\ [][NextChunk]_vars

\* the extractor found a header in the text (not only the synthesized one)
RealHeaders == headers # <<>> /\ headers[1].pos > 0

HeaderLines == {headers[i].pos : i \in 1..Len(headers)}

SeqToSet(s) == {s[i] : i \in 1..Len(s)}

\* C2: for consecutive headers i and i+1 the text of chunk i holds only lines
\* located after header i and before header i+1, and no line of body text is in
\* two chunks, headers on one page included.
C2_NoOverlap ==
    (chunk_pc = "done" /\ RealHeaders) =>
        /\ \A c \in 1..Len(chunks) :
              LET i == chunks[c].header_index
              IN i < Len(headers) =>
                    \A k \in 1..Len(chunks[c].lines) :
                        /\ headers[i].pos < chunks[c].lines[k]
                        /\ chunks[c].lines[k] < headers[i + 1].pos
        /\ \A c, d \in 1..Len(chunks) :
              c # d => (SeqToSet(chunks[c].lines) \cap SeqToSet(chunks[d].lines)) \subseteq HeaderLines

\* the length of the header-delimited span of body lines around line b
SpanLength(b) ==
    LET n     == Len(pdf.lines)
        first == CHOOSE a \in 1..b : /\ \A j \in a..b : j \notin HeaderLines
                                     /\ (a = 1 \/ (a - 1) \in HeaderLines)
        last  == CHOOSE z \in b..n : /\ \A j \in b..z : j \notin HeaderLines
                                     /\ (z = n \/ (z + 1) \in HeaderLines)
    IN Len(JoinWith([k \in 1..(last - first + 1) |-> pdf.lines[first + k - 1].text], "\n"))

RECURSIVE ConcatLines(_, _)
ConcatLines(cs, c) == IF c > Len(cs) THEN <<>> ELSE cs[c].lines \o ConcatLines(cs, c + 1)

\* C3: with at least one detected header the chunk texts in order are the
\* document with only the header lines removed (each body line once, in
\* order); a body line is missing only from a header-delimited span shorter
\* than 50 characters, so text before the first header is kept.
C3_Coverage ==
    (chunk_pc = "done" /\ RealHeaders) =>
        LET all == ConcatLines(chunks, 1)
        IN /\ \A k \in 1..Len(all) : all[k] \notin HeaderLines
           /\ \A k \in 1..(Len(all) - 1) : all[k] < all[k + 1]
           /\ \A b \in 1..Len(pdf.lines) :
                 (b \notin HeaderLines /\ b \notin SeqToSet(all)) => SpanLength(b) < 50

\* C4: every chunk chunk_pdf_hierarchically returns has non-empty text of
\* trimmed length 50 or more, and a header whose span is shorter gives no chunk.
C4_EveryChunkAtLeast50 ==
    chunk_pc = "done" =>
        /\ \A c \in 1..Len(chunks) : chunks[c].text # "" /\ Len(strip(chunks[c].text)) >= 50
        /\ \A i \in 1..Len(headers) :
              Len(strip(extract_content_between_headers(pdf, headers[i],
                          IF i < Len(headers) THEN <<headers[i + 1]>> ELSE <<>>).text)) < 50
              => \A c \in 1..Len(chunks) : chunks[c].header_index # i

\* a run that returned a chunk and dropped the short span of another header
C4_Witness ==
    /\ chunk_pc = "done"
    /\ Len(chunks) >= 1
    /\ Len(chunks) < Len(headers)

\* the last n words of text, joined by one blank
LastWords(text, n) ==
    LET words == split_words(text)
    IN JoinWith(IF Len(words) > n THEN SubSeq(words, Len(words) - n + 1, Len(words)) ELSE words, " ")

LongestLine ==
    CHOOSE m \in {Len(pdf.lines[i].text) : i \in 1..Len(pdf.lines)} :
        \A i \in 1..Len(pdf.lines) : Len(pdf.lines[i].text) <= m

\* C5: when only the synthesized 'Document Content' header was found and the
\* document has text, there is at least one chunk, all chunks are CONCEPT, none
\* is longer than chunk_size plus one sentence, and each chunk after the first
\* starts with the last chunk_overlap words of the one before.
C5_FallbackSlidingWindow ==
    (chunk_pc = "done" /\ headers = <<default_header>> /\ pdf.lines # <<>>) =>
        /\ Len(chunks) >= 1
        /\ \A c \in 1..Len(chunks) :
              /\ chunks[c].chunk_type = CONCEPT
              /\ Len(chunks[c].text) <= DEFAULT_CHUNK_SIZE + LongestLine
        /\ \A c \in 2..Len(chunks) :
              StartsWith(chunks[c].text, LastWords(chunks[c - 1].text, DEFAULT_CHUNK_OVERLAP))

(***************************************************************************)
(* Content-type detection (strategies/content_strategy_selector.py)        *)
(*                                                                         *)
(* A file is [size, first_page]: its size in bytes and the text pdfplumber *)
(* extracts from its first page ("" when the file cannot be opened, has no *)
(* page or the page has no text).                                          *)
(***************************************************************************)
BOOK     == "book"
CHAPTER  == "chapter"
DOCUMENT == "document"
AUTO     == "auto"
ContentType == {BOOK, CHAPTER, DOCUMENT, AUTO}

FILE_SIZE_THRESHOLD_MB == 5
MIN_BOOK_INDICATORS    == 2
MIN_CHAPTER_REFERENCES == 3
CHAPTER_CHECK_LINES    == 5

\* \w
IsWordChar(c) ==
    \/ c \in SeqRange(LowerChars) \/ c \in SeqRange(UpperChars)
    \/ IsDigit(c) \/ c \in {"_", "Â", "â"}

\* \b in front of position i of s
WordBoundary(s, i) ==
    LET before == i > 1 /\ i - 1 <= Len(s) /\ IsWordChar(CharAt(s, i - 1))
        after  == i >= 1 /\ i <= Len(s) /\ IsWordChar(CharAt(s, i))
    IN before # after

\* the literal lit stands at position i of s
MatchLit(s, i, lit) == i >= 1 /\ i + Len(lit) - 1 <= Len(s) /\ SubSeq(s, i, i + Len(lit) - 1) = lit

\* ^ under re.MULTILINE
LineStart(s, i) == i = 1 \/ (i > 1 /\ i - 1 <= Len(s) /\ CharAt(s, i - 1) = "\n")

\* re.search of BOOK_INDICATORS[k] in s
book_indicator(k, s) ==
    CASE k = 1 ->       \* \bedition\b
            \E i \in 1..Len(s) :
                WordBoundary(s, i) /\ MatchLit(s, i, "edition") /\ WordBoundary(s, i + 7)
      [] k = 2 ->       \* \bisbn[\s\-:]*\d
            \E i \in 1..Len(s) :
                /\ WordBoundary(s, i) /\ MatchLit(s, i, "isbn")
                /\ LET j == i + 4 + RunOf(s, i + 4, "sep")
                   IN j <= Len(s) /\ IsDigit(CharAt(s, j))
      [] k = 3 ->       \* \bcopyright\s+Â©?\s*\d{4}, as the source file spells it
            \E i \in 1..Len(s) :
                /\ WordBoundary(s, i) /\ MatchLit(s, i, "copyright")
                /\ RunOf(s, i + 9, "space") >= 1
                /\ LET a == i + 9 + RunOf(s, i + 9, "space")
                       c == IF MatchLit(s, a + 1, "©") THEN a + 2 ELSE a + 1
                       d == c + RunOf(s, c, "space")
                   IN MatchLit(s, a, "Â") /\ RunOf(s, d, "digit") >= 4
      [] k = 4 ->       \* \bpublished\s+by\b
            \E i \in 1..Len(s) :
                /\ WordBoundary(s, i) /\ MatchLit(s, i, "published")
                /\ RunOf(s, i + 9, "space") >= 1
                /\ LET j == i + 9 + RunOf(s, i + 9, "space")
                   IN MatchLit(s, j, "by") /\ WordBoundary(s, j + 2)
      [] k = 5 ->       \* \b(?:university|academic)\s+press\b
            \E i \in 1..Len(s) : \E w \in {"university", "academic"} :
                /\ WordBoundary(s, i) /\ MatchLit(s, i, w)
                /\ RunOf(s, i + Len(w), "space") >= 1
                /\ LET j == i + Len(w) + RunOf(s, i + Len(w), "space")
                   IN MatchLit(s, j, "press") /\ WordBoundary(s, j + 5)

\* len(re.findall(r'chapter\s+\d+', s))
RECURSIVE count_chapter_references(_, _)
count_chapter_references(s, i) ==
    IF i > Len(s) THEN 0
    ELSE LET sp == RunOf(s, i + 7, "space")
             dg == RunOf(s, i + 7 + sp, "digit")
         IN IF MatchLit(s, i, "chapter") /\ sp >= 1 /\ dg >= 1
            THEN 1 + count_chapter_references(s, i + 7 + sp + dg)
            ELSE count_chapter_references(s, i + 1)

is_book_first_page(text) ==
    \E text_lower \in {lower(text)} :
        \/ Cardinality({k \in 1..5 : book_indicator(k, text_lower)}) >= MIN_BOOK_INDICATORS
        \/ count_chapter_references(text_lower, 1) >= MIN_CHAPTER_REFERENCES

\* text.split('\n')
split_lines(text) ==
    LET RECURSIVE scan(_, _)
        scan(i, start) ==
            IF i > Len(text) THEN <<SubSeq(text, start, Len(text))>>
            ELSE IF CharAt(text, i) = "\n"
                 THEN <<SubSeq(text, start, i - 1)>> \o scan(i + 1, i + 1)
            ELSE scan(i + 1, start)
    IN scan(1, 1)

\* re.search of CHAPTER_PATTERNS[k] in s with re.IGNORECASE | re.MULTILINE; s is lowercased
chapter_pattern_search(k, s) ==
    CASE k \in {1, 4} ->    \* ^chapter\s+\d+ and ^CHAPTER\s+\d+
            \E i \in 1..Len(s) :
                /\ LineStart(s, i) /\ MatchLit(s, i, "chapter")
                /\ RunOf(s, i + 7, "space") >= 1
                /\ RunOf(s, i + 7 + RunOf(s, i + 7, "space"), "digit") >= 1
      [] k = 2 ->           \* ^ch\.?\s*\d+
            \E i \in 1..Len(s) :
                /\ LineStart(s, i) /\ MatchLit(s, i, "ch")
                /\ \/ RunOf(s, i + 2 + RunOf(s, i + 2, "space"), "digit") >= 1
                   \/ /\ MatchLit(s, i + 2, ".")
                      /\ RunOf(s, i + 3 + RunOf(s, i + 3, "space"), "digit") >= 1
      [] k = 3 ->           \* ^\d+\.\s+[A-Z]
            \E i \in 1..Len(s) :
                /\ LineStart(s, i) /\ RunOf(s, i, "digit") >= 1
                /\ LET dot == i + RunOf(s, i, "digit")
                       sp  == RunOf(s, dot + 1, "space")
                   IN /\ MatchLit(s, dot, ".") /\ sp >= 1
                      /\ dot + 1 + sp <= Len(s)
                      /\ CharAt(s, dot + 1 + sp) \in SeqRange(LowerChars)

is_chapter_first_page(text) ==
    \E first_lines \in {lower(JoinWith(Take(split_lines(text), CHAPTER_CHECK_LINES), "\n"))} :
        \E k \in 1..4 : chapter_pattern_search(k, first_lines)

\* os.path.getsize(file_path) / (1024 * 1024) > FILE_SIZE_THRESHOLD_MB;
\* a size that cannot be read (NoneNum) is not large
is_large_file(file) ==
    file.size # NoneNum /\ file.size > FILE_SIZE_THRESHOLD_MB * 1024 * 1024

\* ContentStrategySelector.detect_content_type
detect_content_type(file, user_hint) ==
    IF user_hint # None /\ user_hint # AUTO THEN user_hint
    ELSE IF is_large_file(file) THEN BOOK
    ELSE IF file.first_page = "" THEN DOCUMENT
    ELSE IF is_book_first_page(file.first_page) THEN BOOK
    ELSE IF is_chapter_first_page(file.first_page) THEN CHAPTER
    ELSE DOCUMENT

(***************************************************************************)
(* Specification SpecDetect: detect_content_type on bounded files          *)
(***************************************************************************)
MaxFillerLines == 5
MaxBodyLines   == 2

FillerLine == "Plain text"

FirstPageLines == {
    "3rd Edition",
    "ISBN 978-0",
    "Copyright © 2020",
    "Chapter 5 Energy",
    "chapter 1 chapter 2",
    "see Chapter 9",
    "7. Motion" }

\* first pages: some filler lines, then lines of the vocabulary; "" is the unreadable page
FirstPages ==
    {""} \cup
    {JoinWith([i \in 1..k |-> FillerLine] \o body, "\n") :
        <<k, body>> \in (0..MaxFillerLines) \X
                        UNION {[1..n -> FirstPageLines] : n \in 0..MaxBodyLines}}

FileSizes == {NoneNum, 1024 * 1024, 5 * 1024 * 1024, 5 * 1024 * 1024 + 1}

UserHints == {None, AUTO, BOOK, CHAPTER, DOCUMENT}

InitDetect ==
    /\ text_op = "detect"
    /\ text_in \in {[file |-> [size |-> sz, first_page |-> fp], user_hint |-> h] :
                       <<sz, fp, h>> \in FileSizes \X FirstPages \X UserHints}
    /\ text_out = Pending
    /\ SearchIdle /\ ChunkIdle /\ ServiceIdle /\ IngestIdle

DetectContentType ==
    /\ text_op = "detect"
    /\ text_out = Pending
    /\ text_out' = detect_content_type(text_in.file, text_in.user_hint)
    /\ UNCHANGED <<text_op, text_in, search_vars, chunk_vars, ingest_vars, service_vars>>

NextDetect == DetectContentType

SpecDetect == InitDetect /\ [][NextDetect]_vars

\* the copyright indicator as listed: copyright ©? \d{4}
ListedCopyright(s) ==
    \E i \in 1..Len(s) :
        /\ WordBoundary(s, i) /\ MatchLit(s, i, "copyright")
        /\ RunOf(s, i + 9, "space") >= 1
        /\ LET a == i + 9 + RunOf(s, i + 9, "space")
               c == IF MatchLit(s, a, "©") THEN a + 1 ELSE a
           IN RunOf(s, c + RunOf(s, c, "space"), "digit") >= 4

\* the number of listed book indicators found on the first page
ListedIndicators(text) ==
    LET s == lower(text)
    IN Cardinality({k \in {1, 2, 4, 5} : book_indicator(k, s)})
       + (IF ListedCopyright(s) THEN 1 ELSE 0)

\* C13: the first matching rule decides: a hint other than AUTO; a size over
\* 5 MB gives BOOK; 2 listed book indicators or 3 'chapter N' references on
\* the first page give BOOK; a chapter-header pattern in the first 5 lines
\* gives CHAPTER; else DOCUMENT; the result is never AUTO.
C13_DetectionOrder ==
    (text_op = "detect" /\ text_out # Pending) =>
        LET file == text_in.file
            hint == text_in.user_hint
        IN /\ text_out \in {BOOK, CHAPTER, DOCUMENT}
           /\ text_out =
                 IF hint \notin {None, AUTO} THEN hint
                 ELSE IF file.size # NoneNum /\ file.size > 5 * 1024 * 1024 THEN BOOK
                 ELSE IF \/ ListedIndicators(file.first_page) >= 2
                         \/ count_chapter_references(lower(file.first_page), 1) >= 3
                      THEN BOOK
                 ELSE IF is_chapter_first_page(file.first_page) THEN CHAPTER
                 ELSE DOCUMENT

\* the fields of a chunk the two runs are compared on
ChunkFields == {"text", "page_start", "page_end", "chapter_num", "chapter_title",
                "section_num", "section_title", "chunk_type"}

PDF  == "pdf"
TEXT == "text"

\* a two-page PDF with a chapter header, and the bytes of a plain-text file,
\* which pdfplumber cannot open
ChapterPdf == [valid |-> TRUE, fonts |-> "styled", npages |-> 2,
               lines |-> <<[page |-> 1, text |-> ChapterLine],
                           [page |-> 1, text |-> LongBody],
                           [page |-> 2, text |-> LongBody]>>]

\* the user_files rows: the stored file_type, the size on disk, what
\* pdfplumber makes of the bytes and what the bytes decode to
StoredFiles ==
    [f1 |-> [file_type |-> PDF,  size |-> 1024 * 1024, pdf |-> ChapterPdf,    data |-> ""],
     f2 |-> [file_type |-> TEXT, size |-> 1024,        pdf |-> UnreadablePdf, data |-> "Plain notes."]]

FileIds == DOMAIN StoredFiles

\* what the collaborators do for a file during one call
FileKinds == {"ok", "missing", "linked", "unreadable", "no_local_copy", "embed_fails",
              "store_fails"}

\* FileService.extract_pdf_text; "" is None
extract_pdf_text(doc) ==
    IF ~doc.valid THEN ""
    ELSE LET RECURSIVE text(_)
             text(p) == IF p > doc.npages THEN ""
                        ELSE (IF extract_text(doc, p) # ""
                              THEN extract_text(doc, p) \o "\n" ELSE "") \o text(p + 1)
         IN strip(text(1))

\* FileService.get_file_content; "" is None
get_file_content(file, kind) ==
    IF kind \in {"missing", "unreadable"} THEN ""
    ELSE IF file.file_type = PDF THEN extract_pdf_text(file.pdf)
    ELSE file.data

\* ContentStrategySelector._read_first_page; "" is None
read_first_page(doc) ==
    IF ~doc.valid \/ doc.npages = 0 THEN "" ELSE extract_text(doc, 1)

\* the chunk_size and chunk_overlap of the strategy get_strategy selects
strategy_chunk_size(content_type) ==
    IF content_type = BOOK THEN 2048 ELSE IF content_type = CHAPTER THEN 1024 ELSE 512

strategy_chunk_overlap(content_type) ==
    IF content_type = BOOK THEN 200 ELSE IF content_type = CHAPTER THEN 100 ELSE 50

build_content_document(file_id, file_type, content) ==
    [document_id |-> file_id, chunk_id |-> None, text |-> content, source |-> file_type]

build_chunk_document(file_id, file_type, chunk) ==
    [document_id |-> file_id, chunk_id |-> chunk.chunk_id, text |-> chunk.text,
     source |-> file_type]

\* _build_documents_from_chunks, or the whole-document fallback when the
\* chunker returned nothing; found is the chunker's list.
\* [raised, documents, drawn, chunked, fallback]: documents is the list returned
\* unless an exception escaped; drawn the uuid4 values drawn; chunked tells that
\* the chunker was run and fallback that the whole document was embedded instead
\* of chunks
documents_from_chunks(file_id, file_content, file_type, kind, found, drawn) ==
    IF kind = "embed_fails"
    THEN [raised |-> TRUE, documents |-> <<>>, drawn |-> drawn + uuids_drawn(found),
          chunked |-> TRUE, fallback |-> found = <<>>]
    ELSE IF found = <<>>
    THEN [raised |-> FALSE,
          documents |-> <<build_content_document(file_id, file_type, file_content)>>,
          drawn |-> drawn, chunked |-> TRUE, fallback |-> TRUE]
    ELSE [raised |-> FALSE,
          documents |-> [k \in 1..Len(found) |->
                            build_chunk_document(file_id, file_type, with_uuids(found, drawn)[k])],
          drawn |-> drawn + uuids_drawn(found), chunked |-> TRUE, fallback |-> FALSE]

\* strategy.chunk_document of the strategy selected for content_type
chunk_document(doc, content_type) ==
    chunk_pdf_hierarchically(doc, strategy_chunk_size(content_type),
                             strategy_chunk_overlap(content_type)).chunks

process_structured_file(file_id, file_content, file_type, kind, content_type_hint, drawn) ==
    IF kind = "no_local_copy"
    THEN [raised |-> FALSE, documents |-> <<>>, drawn |-> drawn,
          chunked |-> FALSE, fallback |-> FALSE]
    ELSE documents_from_chunks(
             file_id, file_content, file_type, kind,
             chunk_document(StoredFiles[file_id].pdf,
                            detect_content_type(
                                [size       |-> StoredFiles[file_id].size,
                                 first_page |-> read_first_page(StoredFiles[file_id].pdf)],
                                content_type_hint)),
             drawn)

\* the part of _generate_embedding_and_document after a cache miss, up to the
\* documents it has in hand
compute_documents(file_id, file_content, file_type, kind, content_type_hint, drawn) ==
    IF lower(strip(file_type)) \in {PDF, TEXT}
    THEN process_structured_file(file_id, file_content, file_type, kind, content_type_hint, drawn)
    ELSE IF kind = "embed_fails"
    THEN [raised |-> TRUE, documents |-> <<>>, drawn |-> drawn,
          chunked |-> FALSE, fallback |-> FALSE]
    ELSE [raised |-> FALSE,
          documents |-> <<build_content_document(file_id, file_type, file_content)>>,
          drawn |-> drawn, chunked |-> FALSE, fallback |-> FALSE]

\* the chunk cache file of a file id
NoCacheFile    == [state |-> "absent",  documents |-> <<>>]
EmptyCacheFile == [state |-> "partial", documents |-> <<>>]
CacheFile(documents) == [state |-> "written", documents |-> documents]

\* CacheManager.load_chunks; <<>> is None: no file, or a file json.load rejects
load_chunks(cache_file) ==
    IF cache_file.state = "written" THEN cache_file.documents ELSE <<>>

\* the end of _generate_embedding_and_document after a cache miss: r is what
\* the computation gave; documents are saved when there are any
save_and_return(cache_file, r) ==
    [none       |-> r.raised,
     documents  |-> r.documents,
     cache_file |-> IF ~r.raised /\ r.documents # <<>> THEN CacheFile(r.documents)
                    ELSE cache_file,
     drawn      |-> r.drawn,
     computed   |-> TRUE,
     chunked    |-> r.chunked,
     fallback   |-> r.fallback]

\* _generate_embedding_and_document reading the cache only for calls without
\* a content type hint
generate_embedding_and_document_hint_skips_cache(cache_file, file_id, file_content, file_type, kind, hint, drawn) ==
    IF load_chunks(cache_file) # <<>> /\ hint = AUTO
    THEN [none |-> FALSE, documents |-> load_chunks(cache_file), cache_file |-> cache_file,
          drawn |-> drawn, computed |-> FALSE, chunked |-> FALSE, fallback |-> FALSE]
    ELSE save_and_return(cache_file,
                         compute_documents(file_id, file_content, file_type, kind, hint, drawn))

\* [none, documents, cache_file, drawn, computed, chunked, fallback]: none tells
\* that None was returned
generate_embedding_and_document(cache_file, file_id, file_content, file_type, kind, hint, drawn) ==
    IF load_chunks(cache_file) # <<>>
    THEN [none |-> FALSE, documents |-> load_chunks(cache_file), cache_file |-> cache_file,
          drawn |-> drawn, computed |-> FALSE, chunked |-> FALSE, fallback |-> FALSE]
    ELSE save_and_return(cache_file,
                         compute_documents(file_id, file_content, file_type, kind, hint, drawn))

\* LinkContentResponse(...): file_id is a required str, so an item without a
\* file_id makes the constructor raise
ValidationError == [error |-> "ValidationError"]

link_success(file_item) ==
    IF file_item.file_id = None THEN ValidationError
    ELSE [name |-> file_item.name, file_id |-> file_item.file_id, type |-> file_item.type,
          created_at |-> "now", indexing_status |-> "INDEXING_SUCCESS", status_code |-> 200,
          message |-> "Successfully linked to collection"]

link_error(file_item, status_code, message) ==
    IF file_item.file_id = None THEN ValidationError
    ELSE [name |-> file_item.name, file_id |-> file_item.file_id, type |-> file_item.type,
          created_at |-> None, indexing_status |-> "INDEXING_FAILED",
          status_code |-> status_code, message |-> message]

NoTrace == [computed |-> FALSE, chunked |-> FALSE, fallback |-> FALSE]

\* the state of link_content between two iterations of its loop
LinkState(responses, traces, escaped, files, cache, points, drawn) ==
    [responses |-> responses, traces |-> traces, raised |-> escaped, files |-> files,
     cache |-> cache, points |-> points, drawn |-> drawn]

\* the iteration ends with link_error(file_item, status_code, message), or with
\* an exception when that call raises
respond_error(st, file_item, status_code, message, trace, cache, drawn) ==
    IF link_error(file_item, status_code, message) # ValidationError
    THEN LinkState(Append(st.responses, link_error(file_item, status_code, message)),
                   Append(st.traces, trace), FALSE, st.files, cache, st.points, drawn)
    \* except Exception: the handler calls link_error for the same item
    ELSE IF link_error(file_item, 500, "Internal error") # ValidationError
    THEN LinkState(Append(st.responses, link_error(file_item, 500, "Internal error")),
                   Append(st.traces, trace), FALSE, st.files, cache, st.points, drawn)
    ELSE LinkState(st.responses, st.traces, TRUE, st.files, cache, st.points, drawn)

\* the iteration from the return of _generate_embedding_and_document, g, on
link_documents(st, file_item, kind, g) ==
    IF g.none \/ g.documents = <<>>
    THEN respond_error(st, file_item, 500, "Failed to generate embedding",
                       [computed |-> g.computed, chunked |-> g.chunked, fallback |-> g.fallback],
                       [st.cache EXCEPT ![file_item.file_id] = g.cache_file], g.drawn)
    ELSE IF kind = "store_fails"
    THEN respond_error(st, file_item, 500, "Failed to link content to collection",
                       [computed |-> g.computed, chunked |-> g.chunked, fallback |-> g.fallback],
                       [st.cache EXCEPT ![file_item.file_id] = g.cache_file], g.drawn)
    ELSE LinkState(Append(st.responses, link_success(file_item)),
                   Append(st.traces, [computed |-> g.computed, chunked |-> g.chunked,
                                      fallback |-> g.fallback]),
                   FALSE, st.files \cup {file_item.file_id},
                   [st.cache EXCEPT ![file_item.file_id] = g.cache_file],
                   st.points \o g.documents, g.drawn)

\* the iteration from the return of _get_file_content on
link_file_content(st, file_item, kind, file_content) ==
    IF file_content = ""
    THEN respond_error(st, file_item, 500, "Could not read file content", NoTrace,
                       st.cache, st.drawn)
    ELSE link_documents(st, file_item, kind,
                        generate_embedding_and_document(
                            st.cache[file_item.file_id], file_item.file_id, file_content,
                            file_item.type, kind, file_item.content_type, st.drawn))

\* link_one without the check for a file that is already linked
link_one_without_linked_check(st, file_item, kind) ==
    IF kind = "missing"
    THEN respond_error(st, file_item, 404, "File not found", NoTrace, st.cache, st.drawn)
    ELSE link_file_content(st, file_item, kind,
                           get_file_content(StoredFiles[file_item.file_id], kind))

\* one iteration of the loop of link_content: the state after it
link_one(st, file_item, kind) ==
    IF kind = "missing"
    THEN respond_error(st, file_item, 404, "File not found", NoTrace, st.cache, st.drawn)
    ELSE IF file_item.file_id \in st.files
    THEN respond_error(st, file_item, 409, "File already linked, unlink first", NoTrace,
                       st.cache, st.drawn)
    ELSE link_file_content(st, file_item, kind,
                           get_file_content(StoredFiles[file_item.file_id], kind))

\* CollectionService.link_content on an existing collection: the state after
\* the loop, or at the iteration an exception escaped from
link_content(files, env, linked, cache, drawn) ==
    LET RECURSIVE loop(_, _)
        loop(i, st) ==
            IF i > Len(files) \/ st.raised THEN st
            ELSE loop(i + 1,
                      link_one(st, files[i],
                               IF files[i].file_id \in FileIds THEN env[files[i].file_id]
                               ELSE "missing"))
    IN loop(1, LinkState(<<>>, <<>>, FALSE, linked, cache, <<>>, drawn))

(***************************************************************************)
(* Specification SpecLink: one link_content call on an existing collection *)
(***************************************************************************)
MaxBatch == 2

\* the items a client can submit: a stored file under either supported type,
\* and a web page, which carries a web_url and no file_id
LinkContentItems ==
    {[name |-> id, file_id |-> id, type |-> t, content_type |-> AUTO] :
        <<id, t>> \in FileIds \X {PDF, TEXT}}
    \cup {[name |-> "page", file_id |-> None, type |-> "web", content_type |-> AUTO]}

Batches == UNION {[1..n -> LinkContentItems] : n \in 1..MaxBatch}

PreviousDocuments(file_id) ==
    <<build_content_document(file_id, StoredFiles[file_id].file_type, "Earlier text")>>

InitLink ==
    /\ TextIdle /\ SearchIdle /\ ChunkIdle /\ ServiceIdle /\ CallIdle /\ OpsIdle
    /\ link_env \in [FileIds -> FileKinds]
    /\ link_batch \in Batches
    /\ collection_files = {id \in FileIds : link_env[id] = "linked"}
    /\ chunk_cache \in [FileIds -> {NoCacheFile}]
                      \cup {[id \in FileIds |-> CacheFile(PreviousDocuments(id))]}
    /\ link_responses = <<>>
    /\ link_raised = FALSE
    /\ link_trace = <<>>
    /\ linked_points = <<>>
    /\ link_pc = "new"

LinkContent ==
    /\ link_pc = "new"
    /\ \E r \in {link_content(link_batch, link_env, collection_files, chunk_cache, uuid_next)} :
          /\ link_responses' = r.responses
          /\ link_trace' = r.traces
          /\ link_raised' = r.raised
          /\ collection_files' = r.files
          /\ chunk_cache' = r.cache
          /\ linked_points' = r.points
          /\ uuid_next' = r.drawn
    /\ link_pc' = "done"
    /\ UNCHANGED <<link_env, link_batch, call_vars, ops_vars, pdf, headers, chunks, rechunked,
                   chunk_pc, text_vars, search_vars, service_vars>>

NextLink == LinkContent

SpecLink == InitLink /\ [][NextLink]_vars

(***************************************************************************)
(* Specification SpecCache: concurrent _generate_embedding_and_document    *)
(* calls for one file id, each step of a call being one action             *)
(***************************************************************************)
MaxCalls == 2

Calls == 1..MaxCalls

CachedFileId == "f1"

InitCache ==
    /\ TextIdle /\ SearchIdle /\ ChunkIdle /\ ServiceIdle /\ LinkIdle /\ OpsIdle
    /\ call_env \in [Calls -> {"ok", "no_local_copy", "embed_fails"}]
    /\ call_pc = [c \in Calls |-> "load"]
    /\ call_documents = [c \in Calls |-> <<>>]
    /\ chunk_computations = 0
    /\ chunk_cache \in {[id \in FileIds |-> NoCacheFile],
                        [id \in FileIds |-> CacheFile(PreviousDocuments(id))]}

CacheUnchanged == UNCHANGED <<call_env, link_vars, ops_vars, pdf, headers, chunks, rechunked,
                              chunk_pc, text_vars, search_vars, service_vars>>

\* cached_documents = self.cache_manager.load_chunks(file_id)
LoadChunks(c) ==
    /\ call_pc[c] = "load"
    /\ IF load_chunks(chunk_cache[CachedFileId]) # <<>>
       THEN /\ call_documents' = [call_documents EXCEPT ![c] = load_chunks(chunk_cache[CachedFileId])]
            /\ call_pc' = [call_pc EXCEPT ![c] = "returned"]
       ELSE /\ call_pc' = [call_pc EXCEPT ![c] = "miss"]
            /\ UNCHANGED call_documents
    /\ UNCHANGED <<chunk_cache, chunk_computations, uuid_next>>
    /\ CacheUnchanged

\* documents = self._process_structured_file(...)
ProcessFile(c) ==
    /\ call_pc[c] = "miss"
    /\ \E r \in {compute_documents(CachedFileId,
                                   get_file_content(StoredFiles[CachedFileId], call_env[c]),
                                   StoredFiles[CachedFileId].file_type, call_env[c], AUTO,
                                   uuid_next)} :
          /\ call_documents' = [call_documents EXCEPT ![c] = r.documents]
          /\ uuid_next' = r.drawn
          /\ chunk_computations' = chunk_computations + (IF r.chunked THEN 1 ELSE 0)
          /\ call_pc' = [call_pc EXCEPT ![c] =
                            IF ~r.raised /\ r.documents # <<>> THEN "save" ELSE "returned"]
    /\ UNCHANGED chunk_cache
    /\ CacheUnchanged

\* save_chunks: open(cache_path, 'w') truncates the file
OpenCacheFile(c) ==
    /\ call_pc[c] = "save"
    /\ chunk_cache' = [chunk_cache EXCEPT ![CachedFileId] = EmptyCacheFile]
    /\ call_pc' = [call_pc EXCEPT ![c] = "dump"]
    /\ UNCHANGED <<call_documents, chunk_computations, uuid_next>>
    /\ CacheUnchanged

\* save_chunks: json.dump(documents, f) and the close of the file
DumpDocuments(c) ==
    /\ call_pc[c] = "dump"
    /\ chunk_cache' = [chunk_cache EXCEPT ![CachedFileId] = CacheFile(call_documents[c])]
    /\ call_pc' = [call_pc EXCEPT ![c] = "returned"]
    /\ UNCHANGED <<call_documents, chunk_computations, uuid_next>>
    /\ CacheUnchanged

NextCache ==
    \E c \in Calls : LoadChunks(c) \/ ProcessFile(c) \/ OpenCacheFile(c) \/ DumpDocuments(c)

SpecCache == InitCache /\ [][NextCache]_vars

(***************************************************************************)
(* Specification SpecOps: a sequence of link_content and unlink_content    *)
(* calls, one file each, on one existing collection, and clear_chunks      *)
(***************************************************************************)
MaxOps == 4

\* ResponseBuilder.unlink_response
unlink_response(file_id, status_code, message) ==
    [file_id |-> file_id, status_code |-> status_code, message |-> message]

\* [responses, files, deleted]: the responses so far, the file ids the mapping
\* holds, and the file ids whose points the vector store was told to delete
UnlinkState(responses, files, deleted) ==
    [responses |-> responses, files |-> files, deleted |-> deleted]

\* one iteration of the loop of unlink_content; kind "store_fails" makes
\* qdrant_repo.unlink_content return False
unlink_one(st, file_id, kind) ==
    IF file_id \notin st.files
    THEN UnlinkState(Append(st.responses,
                            unlink_response(file_id, 404, "File not found in collection")),
                     st.files, st.deleted)
    ELSE IF kind # "store_fails"
    THEN UnlinkState(Append(st.responses,
                            unlink_response(file_id, 200, "Successfully unlinked from collection")),
                     st.files \ {file_id}, Append(st.deleted, file_id))
    ELSE UnlinkState(Append(st.responses,
                            unlink_response(file_id, 500,
                                            "Failed to unlink content from collection")),
                     st.files, Append(st.deleted, file_id))

\* CollectionService.unlink_content on an existing collection
unlink_content(file_ids, env, linked) ==
    LET RECURSIVE loop(_, _)
        loop(i, st) ==
            IF i > Len(file_ids) THEN st
            ELSE loop(i + 1, unlink_one(st, file_ids[i], env[file_ids[i]]))
    IN loop(1, UnlinkState(<<>>, linked, <<>>))

\* CacheManager.clear_chunks
clear_chunks(cache, file_id) == [cache EXCEPT ![file_id] = NoCacheFile]

\* the items of the calls: a stored file under its own type, with or without
\* a content type hint
OpsItems ==
    {[name |-> id, file_id |-> id, type |-> StoredFiles[id].file_type, content_type |-> h] :
        <<id, h>> \in FileIds \X {AUTO, BOOK}}

\* what the collaborators can do during a link call; a file that is linked
\* exists, since deleting a file unlinks it first
LinkKinds(file_id) ==
    {"ok", "no_local_copy", "embed_fails", "store_fails"}
    \cup (IF file_id \in collection_files THEN {} ELSE {"missing"})

UnlinkKinds == {"ok", "store_fails"}

NoCall == [op |-> "none", file_id |-> None, files_before |-> {}, cache_before |-> <<>>,
           status_code |-> 0, wrote |-> FALSE, deleted |-> FALSE]

InitOps ==
    /\ TextIdle /\ SearchIdle /\ ChunkIdle /\ ServiceIdle /\ CallIdle
    /\ link_env = <<>> /\ link_batch = <<>> /\ link_responses = <<>>
    /\ link_raised = FALSE /\ link_trace = <<>> /\ linked_points = <<>>
    /\ link_pc = "calls"
    /\ collection_files = {}
    /\ chunk_cache = [id \in FileIds |-> NoCacheFile]
    /\ ops_done = 0
    /\ last_success = [id \in FileIds |-> "none"]
    /\ last_call = NoCall

OpsUnchanged == UNCHANGED <<link_pc, call_vars, pdf, headers, chunks, rechunked, chunk_pc,
                            text_vars, search_vars, service_vars>>

\* link_content(collection_name, [file_item], user_id)
LinkCall(file_item, kind) ==
    /\ ops_done < MaxOps
    /\ kind \in LinkKinds(file_item.file_id)
    /\ link_batch' = <<file_item>>
    /\ link_env' = [id \in FileIds |-> kind]
    /\ \E r \in {link_content(<<file_item>>, [id \in FileIds |-> kind], collection_files,
                              chunk_cache, uuid_next)} :
          /\ link_responses' = r.responses
          /\ link_trace' = r.traces
          /\ link_raised' = r.raised
          /\ collection_files' = r.files
          /\ chunk_cache' = r.cache
          /\ linked_points' = r.points
          /\ uuid_next' = r.drawn
          /\ last_call' = [op |-> "link", file_id |-> file_item.file_id,
                           files_before |-> collection_files, cache_before |-> chunk_cache,
                           status_code |-> r.responses[1].status_code,
                           wrote |-> r.points # <<>>, deleted |-> FALSE]
          /\ last_success' = IF r.responses[1].status_code = 200
                             THEN [last_success EXCEPT ![file_item.file_id] = "link"]
                             ELSE last_success
    /\ ops_done' = ops_done + 1
    /\ OpsUnchanged

\* unlink_content(collection_name, [file_id], user_id)
UnlinkCall(file_id, kind) ==
    /\ ops_done < MaxOps
    /\ link_batch' = <<file_id>>
    /\ link_env' = [id \in FileIds |-> kind]
    /\ \E r \in {unlink_content(<<file_id>>, [id \in FileIds |-> kind], collection_files)} :
          /\ link_responses' = r.responses
          /\ collection_files' = r.files
          /\ last_call' = [op |-> "unlink", file_id |-> file_id,
                           files_before |-> collection_files, cache_before |-> chunk_cache,
                           status_code |-> r.responses[1].status_code,
                           wrote |-> FALSE, deleted |-> r.deleted # <<>>]
          /\ last_success' = IF r.responses[1].status_code = 200
                             THEN [last_success EXCEPT ![file_id] = "unlink"]
                             ELSE last_success
    /\ link_trace' = <<>>
    /\ link_raised' = FALSE
    /\ linked_points' = <<>>
    /\ ops_done' = ops_done + 1
    /\ UNCHANGED <<chunk_cache, uuid_next>>
    /\ OpsUnchanged

\* cache_manager.clear_chunks(file_id)
ClearChunks(file_id) ==
    /\ ops_done < MaxOps
    /\ chunk_cache' = clear_chunks(chunk_cache, file_id)
    /\ last_call' = [op |-> "clear", file_id |-> file_id, files_before |-> collection_files,
                     cache_before |-> chunk_cache, status_code |-> 0,
                     wrote |-> FALSE, deleted |-> FALSE]
    /\ ops_done' = ops_done + 1
    /\ UNCHANGED <<link_env, link_batch, link_responses, link_raised, link_trace,
                   collection_files, linked_points, uuid_next, last_success>>
    /\ OpsUnchanged

NextOps ==
    \/ \E file_item \in OpsItems, kind \in FileKinds : LinkCall(file_item, kind)
    \/ \E file_id \in FileIds, kind \in UnlinkKinds : UnlinkCall(file_id, kind)
    \/ \E file_id \in FileIds : ClearChunks(file_id)

SpecOps == InitOps /\ [][NextOps]_vars

(***************************************************************************)
(* Quiz jobs: QuizJobService and QuizGenerationWorker                      *)
(***************************************************************************)
PENDING    == "pending"
GENERATING == "generating"
COMPLETED  == "completed"
FAILED     == "failed"

MaxJobs == 1
MaxQuestions == 2

\* the users that call the service
Users == {"alice", "bob"}

\* quiz job ids are qjob_<8 hex digits of a uuid4>; the n-th id issued is n,
\* and 0 is an id that was never issued
JobIds == 1..MaxJobs
UnknownJobId == 0

NoResult == [kind |-> "none", questions |-> 0, quiz_id |-> None, main_summary |-> None]

\* what the worker can get from query_service.search: the error QuizResponse,
\* which has no questions and is what search gives in quiz mode as it stands
\* (see create_quiz_response), a QuizResponse with questions, or an exception
QuizResponse(n) ==
    [kind |-> "quiz", questions |-> n, quiz_id |-> "quiz", main_summary |-> "Summary"]
SearchRaises == [kind |-> "raise", questions |-> 0, quiz_id |-> None, main_summary |-> None]

SearchResults ==
    {QuizResponse(n) : n \in 1..MaxQuestions}
    \cup {create_error_quiz_response("Context not found"), SearchRaises}

\* the entry of a job id that is not in _jobs
NoJob == [generation_status |-> "none", user_id |-> None, quiz_result |-> NoResult,
          quiz_id |-> None, error_message |-> None, progress_percent |-> 0]

\* self._jobs.get(quiz_job_id)
get_job_status(js, quiz_job_id) ==
    IF quiz_job_id \in DOMAIN js THEN js[quiz_job_id] ELSE NoJob

\* QuizJobService.create_quiz_job: the job stored under the new id
create_quiz_job(user_id) ==
    [generation_status |-> PENDING, user_id |-> user_id, quiz_result |-> NoResult,
     quiz_id |-> None, error_message |-> None, progress_percent |-> 0]

\* QuizJobService.update_job_status with a progress_percent and no error_message
update_job_status(js, quiz_job_id, status, progress_percent) ==
    IF get_job_status(js, quiz_job_id) = NoJob THEN js
    ELSE [js EXCEPT ![quiz_job_id] = [@ EXCEPT !.generation_status = status,
                                                !.progress_percent = progress_percent]]

\* QuizJobService.complete_job
complete_job(js, quiz_job_id, quiz_result) ==
    IF get_job_status(js, quiz_job_id) = NoJob THEN js
    ELSE [js EXCEPT ![quiz_job_id] = [@ EXCEPT !.generation_status = COMPLETED,
                                                !.quiz_result = quiz_result,
                                                !.quiz_id = quiz_result.quiz_id,
                                                !.progress_percent = 100]]

\* fail_job that also puts the progress back to 0
fail_job_resets_progress(js, quiz_job_id, error_message) ==
    IF get_job_status(js, quiz_job_id) = NoJob THEN js
    ELSE [js EXCEPT ![quiz_job_id] = [@ EXCEPT !.generation_status = FAILED,
                                                !.error_message = error_message,
                                                !.progress_percent = 0]]

\* QuizJobService.fail_job
fail_job(js, quiz_job_id, error_message) ==
    IF get_job_status(js, quiz_job_id) = NoJob THEN js
    ELSE [js EXCEPT ![quiz_job_id] = [@ EXCEPT !.generation_status = FAILED,
                                                !.error_message = error_message]]

\* the value get_job_status_response returns when it returns None
NoStatusResponse ==
    [quiz_job_id |-> NoneNum, generation_status |-> "none", progress_percent |-> 0,
     quiz_data |-> NoResult, error_message |-> None]

\* QuizJobService._try_fallback_from_database
try_fallback_from_database(quiz_job_id, user_id) ==
    [quiz_job_id |-> quiz_job_id, generation_status |-> COMPLETED, progress_percent |-> 100,
     quiz_data |-> NoResult,
     error_message |-> "Job no longer trackable. Check /quizzes endpoint for saved quizzes."]

\* QuizJobService.get_job_status_response
get_job_status_response(js, quiz_job_id, user_id) ==
    IF get_job_status(js, quiz_job_id) = NoJob
    THEN try_fallback_from_database(quiz_job_id, user_id)
    ELSE IF get_job_status(js, quiz_job_id).user_id # user_id THEN NoStatusResponse
    ELSE [quiz_job_id |-> quiz_job_id,
          generation_status |-> js[quiz_job_id].generation_status,
          progress_percent |-> js[quiz_job_id].progress_percent,
          quiz_data |-> IF js[quiz_job_id].generation_status = COMPLETED
                           /\ js[quiz_job_id].quiz_result # NoResult
                        THEN js[quiz_job_id].quiz_result ELSE NoResult,
          error_message |-> IF js[quiz_job_id].generation_status = FAILED
                            THEN js[quiz_job_id].error_message ELSE None]

\* no call yet; creator is the user_id of the job the call found under the id
NoPoll == [quiz_job_id |-> NoneNum, user_id |-> None, creator |-> None,
           result |-> NoStatusResponse]

InitQuiz ==
    /\ TextIdle /\ SearchIdle /\ ChunkIdle /\ IngestIdle /\ MappingIdle
    /\ jobs = [j \in JobIds |-> NoJob]
    /\ worker_pc = [j \in JobIds |-> "none"]
    /\ worker_result = [j \in JobIds |-> NoResult]
    /\ status_response = NoPoll

QuizUnchanged == UNCHANGED <<text_vars, search_vars, chunk_vars, ingest_vars, mapping_vars>>

\* query_collection with a quiz_config: create_quiz_job, then the worker run is
\* handed to the background tasks or to a thread
CreateQuizJob(user_id) ==
    /\ \E j \in JobIds :
          /\ jobs[j] = NoJob
          /\ \A k \in JobIds : k < j => jobs[k] # NoJob
          /\ jobs' = [jobs EXCEPT ![j] = create_quiz_job(user_id)]
          /\ worker_pc' = [worker_pc EXCEPT ![j] = "start"]
    /\ UNCHANGED <<worker_result, status_response>>
    /\ QuizUnchanged

\* generate_quiz_async up to the first update_job_status
WorkerStart(j) ==
    /\ worker_pc[j] = "start"
    /\ IF get_job_status(jobs, j) = NoJob
       THEN /\ worker_pc' = [worker_pc EXCEPT ![j] = "done"]
            /\ UNCHANGED jobs
       ELSE /\ jobs' = update_job_status(jobs, j, GENERATING, 10)
            /\ worker_pc' = [worker_pc EXCEPT ![j] = "named"]
    /\ UNCHANGED <<worker_result, status_response>>
    /\ QuizUnchanged

\* the collection name is built, then update_job_status(.., GENERATING, 30)
WorkerNamed(j) ==
    /\ worker_pc[j] = "named"
    /\ jobs' = update_job_status(jobs, j, GENERATING, 30)
    /\ worker_pc' = [worker_pc EXCEPT ![j] = "search"]
    /\ UNCHANGED <<worker_result, status_response>>
    /\ QuizUnchanged

\* self.query_service.search(...): r is what it gives; an exception goes to the
\* handler, which calls fail_job
WorkerSearch(j, r) ==
    /\ worker_pc[j] = "search"
    /\ IF r = SearchRaises
       THEN /\ jobs' = fail_job(jobs, j, "Quiz generation error: search failed")
            /\ worker_pc' = [worker_pc EXCEPT ![j] = "done"]
            /\ UNCHANGED worker_result
       ELSE /\ worker_result' = [worker_result EXCEPT ![j] = r]
            /\ worker_pc' = [worker_pc EXCEPT ![j] = "searched"]
            /\ UNCHANGED jobs
    /\ UNCHANGED status_response
    /\ QuizUnchanged

\* update_job_status(.., GENERATING, 80)
WorkerSearched(j) ==
    /\ worker_pc[j] = "searched"
    /\ jobs' = update_job_status(jobs, j, GENERATING, 80)
    /\ worker_pc' = [worker_pc EXCEPT ![j] = "check"]
    /\ UNCHANGED <<worker_result, status_response>>
    /\ QuizUnchanged

\* the test of the result: save_quiz, whose failure is logged and passed over,
\* and complete_job, or fail_job with the summary of the result
WorkerCheck(j) ==
    /\ worker_pc[j] = "check"
    /\ jobs' = IF worker_result[j].kind = "quiz" /\ worker_result[j].questions > 0
               THEN complete_job(jobs, j, worker_result[j])
               ELSE fail_job(jobs, j, worker_result[j].main_summary)
    /\ worker_pc' = [worker_pc EXCEPT ![j] = "done"]
    /\ UNCHANGED <<worker_result, status_response>>
    /\ QuizUnchanged

\* one step of the generate_quiz_async run of job j
WorkerStep(j) ==
    \/ WorkerStart(j)
    \/ WorkerNamed(j)
    \/ \E r \in SearchResults : WorkerSearch(j, r)
    \/ WorkerSearched(j)
    \/ WorkerCheck(j)

\* GET /quiz/{quiz_job_id} with the header x-user-id
GetQuizStatus(quiz_job_id, user_id) ==
    /\ status_response' = [quiz_job_id |-> quiz_job_id, user_id |-> user_id,
                           creator |-> get_job_status(jobs, quiz_job_id).user_id,
                           result |-> get_job_status_response(jobs, quiz_job_id, user_id)]
    /\ UNCHANGED <<jobs, worker_pc, worker_result>>
    /\ QuizUnchanged

NextQuiz ==
    \/ \E user_id \in Users : CreateQuizJob(user_id)
    \/ \E j \in JobIds : WorkerStep(j)
    \/ \E quiz_job_id \in JobIds \cup {UnknownJobId}, user_id \in Users :
          GetQuizStatus(quiz_job_id, user_id)

SpecQuiz == InitQuiz /\ [][NextQuiz]_vars

\* a worker run handed to the background tasks or to a thread runs on
SpecQuizFair == SpecQuiz /\ \A j \in JobIds : WF_vars(WorkerStep(j))

(***************************************************************************)
(* The collection-files mapping of CacheManager (collection_files.json)    *)
(***************************************************************************)
MaxUpdates == 2

\* user ids and collection names; "_" is allowed in both
UserIds == {"a", "a_b"}
CollectionNames == {"c", "b_c"}
Pairs == UserIds \X CollectionNames
MappedFileIds == {"f1", "f2"}

\* f"{user_id}_{collection_name}": the key of the mapping, and the name of the
\* collection in the vector store
collection_key(user_id, collection_name) == user_id \o "_" \o collection_name

\* mapping[collection_key].append(file_id), the key being added when missing;
\* the mapping as it is when the file id is there already
add_file(m, collection_key_, file_id) ==
    IF collection_key_ \notin DOMAIN m THEN m @@ (collection_key_ :> <<file_id>>)
    ELSE IF \E i \in 1..Len(m[collection_key_]) : m[collection_key_][i] = file_id THEN m
    ELSE [m EXCEPT ![collection_key_] = Append(@, file_id)]

\* mapping[collection_key].remove(file_id) when the file id is there
remove_file(m, collection_key_, file_id) ==
    IF collection_key_ \notin DOMAIN m THEN m
    ELSE [m EXCEPT ![collection_key_] = SelectSeq(@, LAMBDA x : x # file_id)]

\* the mapping a call holds in memory after its modification
modified_mapping(m, u) ==
    IF u.op = "add" THEN add_file(m, collection_key(u.user_id, u.collection_name), u.file_id)
    ELSE remove_file(m, collection_key(u.user_id, u.collection_name), u.file_id)

\* CacheManager.get_collection_files
get_collection_files(m, user_id, collection_name) ==
    IF collection_key(user_id, collection_name) \in DOMAIN m
    THEN m[collection_key(user_id, collection_name)] ELSE <<>>

\* the calls: add_file_to_collection or remove_file_from_collection
MappingCalls ==
    [op : {"add", "remove"}, user_id : UserIds, collection_name : CollectionNames,
     file_id : MappedFileIds]

InitMapping ==
    /\ TextIdle /\ SearchIdle /\ ChunkIdle /\ IngestIdle /\ QuizIdle
    /\ mapping = <<>>
    /\ updates \in [1..MaxUpdates -> {[call |-> u, pc |-> "load", local |-> <<>>] :
                                         u \in MappingCalls}]

MappingUnchanged == UNCHANGED <<text_vars, search_vars, chunk_vars, ingest_vars, quiz_vars>>

\* mapping = self.load_collection_files_mapping() and the change made to the
\* loaded dict; a call that has nothing to change returns True here
LoadMapping(c) ==
    /\ updates[c].pc = "load"
    /\ updates' = [updates EXCEPT
                     ![c] = [@ EXCEPT !.local = modified_mapping(mapping, updates[c].call),
                                      !.pc = IF modified_mapping(mapping, updates[c].call) = mapping
                                             THEN "done" ELSE "save"]]
    /\ UNCHANGED mapping
    /\ MappingUnchanged

\* return self.save_collection_files_mapping(mapping)
SaveMapping(c) ==
    /\ updates[c].pc = "save"
    /\ mapping' = updates[c].local
    /\ updates' = [updates EXCEPT ![c] = [@ EXCEPT !.pc = "done"]]
    /\ MappingUnchanged

NextMapping == \E c \in 1..MaxUpdates : LoadMapping(c) \/ SaveMapping(c)

SpecMapping == InitMapping /\ [][NextMapping]_vars

\* C15: in no interleaving of two _generate_embedding_and_document calls for
\* the same file id, none of which meets a failing collaborator, are the
\* chunks of the file computed more than once.
C15_AtMostOneComputation ==
    (\A c \in Calls : call_env[c] = "ok") => chunk_computations <= 1

\* C16: a file the chunker cannot parse is reported to the caller as a failure
\* of that file; it is never answered by a whole-document fallback.
C16_UnparseableFileSurfaced ==
    link_pc = "done" =>
        \A i \in 1..Len(link_trace) :
            (link_trace[i].chunked /\ ~StoredFiles[link_batch[i].file_id].pdf.valid) =>
                /\ link_responses[i].status_code # 200
                /\ ~link_trace[i].fallback

\* the item is a stored file every collaborator serves, submitted for the
\* first time in the batch
Healthy(i) ==
    /\ link_batch[i].file_id \in FileIds
    /\ link_env[link_batch[i].file_id] = "ok"
    /\ \A j \in 1..(i - 1) : link_batch[j].file_id # link_batch[i].file_id

\* the item meets one of the failures: no such file, already linked, content
\* unreadable, no documents or no embedding while nothing is cached, or the
\* vector store refusing the upload
Failing(i) ==
    \/ link_batch[i].file_id \notin FileIds
    \/ /\ link_batch[i].file_id \in FileIds
       /\ \/ link_env[link_batch[i].file_id] \in {"missing", "linked", "unreadable", "store_fails"}
          \/ /\ link_env[link_batch[i].file_id] \in {"no_local_copy", "embed_fails"}
             /\ chunk_cache[link_batch[i].file_id].state = "absent"

\* C17: link_content on an existing collection returns exactly one response
\* per submitted item, in input order; an item that fails has a non-200 status
\* in its own response, and every healthy item of the batch is linked with
\* status 200 whatever happened to the others.
C17_OneResponsePerFile ==
    link_pc = "done" =>
        /\ ~link_raised
        /\ Len(link_responses) = Len(link_batch)
        /\ \A i \in 1..Len(link_batch) :
              /\ link_responses[i].name = link_batch[i].name
              /\ link_responses[i].file_id = link_batch[i].file_id
              /\ Failing(i) => link_responses[i].status_code # 200
              /\ Healthy(i) => /\ link_responses[i].status_code = 200
                               /\ link_batch[i].file_id \in collection_files

\* C19: the header list is strictly ordered by (page, y_position): of two
\* consecutive headers the later one is on a later page, or on the same page
\* at a strictly greater y_position, on the font-size path and on the
\* text-based path alike.
C19_HeadersStrictlyOrdered ==
    chunk_pc # "new" =>
        \A i \in 1..(Len(headers) - 1) :
            \/ headers[i + 1].page > headers[i].page
            \/ /\ headers[i + 1].page = headers[i].page
               /\ headers[i + 1].y_position > headers[i].y_position

\* C20: the text of a chunk holds neither the line of its own header nor a
\* line that precedes that header on the header's page.
C20_HeaderLineDiscarded ==
    (chunk_pc # "new" /\ RealHeaders) =>
        \A c \in 1..Len(chunks) :
            LET header == headers[chunks[c].header_index]
            IN \A k \in 1..Len(chunks[c].lines) :
                  ~ /\ pdf.lines[chunks[c].lines[k]].page = header.page
                    /\ chunks[c].lines[k] <= header.pos

\* the chapter headers read from lines of the document above the line of header i
ChaptersBefore(i) ==
    {j \in 1..Len(headers) : headers[j].type = "chapter" /\ headers[j].pos < headers[i].pos}

\* C21: every section header carries the chapter_num and chapter_title of the
\* most recent chapter header that precedes it in the document, and null for
\* both when no chapter header precedes it.
C21_SectionInheritsChapter ==
    chunk_pc # "new" =>
        \A i \in 1..Len(headers) :
            headers[i].type = "section" =>
                IF ChaptersBefore(i) = {}
                THEN headers[i].chapter_num = NoneNum /\ headers[i].chapter_title = None
                ELSE LET j == CHOOSE j \in ChaptersBefore(i) :
                                  \A k \in ChaptersBefore(i) : headers[k].pos <= headers[j].pos
                     IN /\ headers[i].chapter_num = headers[j].chapter_num
                        /\ headers[i].chapter_title = headers[j].chapter_title

\* the font sizes the characters of the document carry
DistinctFontSizes ==
    IF pdf.fonts = "none" THEN {}
    ELSE {FontSize(pdf.fonts, pdf.lines[k].text) : k \in 1..Len(pdf.lines)}

\* C22: when the characters of a document carry fewer than 2 distinct font
\* sizes, the headers are those of the text-based extraction: the chapter and
\* section patterns applied line by line without font gating.
C22_FewFontSizesTextBased ==
    (chunk_pc # "new" /\ pdf.valid /\ Cardinality(DistinctFontSizes) < 2) =>
        headers = extract_headers_text_based(pdf)

C28_CachedDocumentsReturned ==
    link_pc = "calls" =>
        \A id \in FileIds :
            (last_call.op # "none" /\ last_call.cache_before[id].state = "written") =>
                /\ chunk_cache[id] # last_call.cache_before[id] =>
                       last_call.op = "clear" /\ last_call.file_id = id
                /\ (last_call.op = "link" /\ last_call.file_id = id) =>
                       /\ ~link_trace[1].computed
                       /\ last_call.status_code = 200 =>
                              linked_points = last_call.cache_before[id].documents

\* the case of C28: a file whose documents were cached and which was unlinked
\* is linked again with a content type hint
C28_Witness ==
    /\ last_call.op = "link" /\ last_call.status_code = 200
    /\ link_batch[1].content_type = BOOK
    /\ last_call.cache_before[last_call.file_id].state = "written"
    /\ last_success[last_call.file_id] = "link"
    /\ last_call.file_id \notin last_call.files_before
    /\ ops_done >= 3

StatusRank(status) ==
    IF status = "none" THEN 0 ELSE IF status = PENDING THEN 1
    ELSE IF status = GENERATING THEN 2 ELSE 3

C25_StatusOnlyToCreator ==
    (status_response.quiz_job_id # NoneNum /\ status_response.creator # status_response.user_id) =>
        /\ status_response.result = NoStatusResponse
        /\ status_response.result.generation_status # COMPLETED

\* the points of the store a search on the request's intent or on its
\* complement would match
MatchingPoints ==
    {i \in 1..Len(store) :
        store[i].chunk_type \in {RequestIntent, secondary_type(RequestIntent)}}

\* C26: for a non-null intent each of the two filtered searches is asked for
\* floor(limit/2) results, so at most 2*floor(limit/2) results are returned:
\* fewer than `limit` for an odd limit, however many chunks match, and none
\* for limit = 1, where both searches are issued with a limit of 0.
C26_HalfLimitPerSearch ==
    (search_pc = "done" /\ RequestIntent # None) =>
        /\ Len(search_calls) = 2
        /\ \A i \in 1..2 :
               /\ search_calls[i].limit = request.limit \div 2
               /\ Len(search_calls[i].returned) <= request.limit \div 2
        /\ Len(retrieved) <= 2 * (request.limit \div 2)
        /\ request.limit % 2 = 1 => Len(retrieved) < request.limit
        /\ request.limit = 1 =>
               /\ search_calls[1].limit = 0 /\ search_calls[2].limit = 0
               /\ retrieved = <<>>

\* the case of C26: an odd limit, no failing search, at least `limit` matching
\* chunks in the store, and fewer than `limit` results
C26_Witness ==
    /\ search_pc = "done" /\ RequestIntent # None /\ faults = {}
    /\ request.limit % 2 = 1
    /\ Cardinality(MatchingPoints) >= request.limit
    /\ Len(retrieved) < request.limit

\* C27: when feedback fusion is enabled and no stored feedback is similar to
\* the query, or there is no candidate, the feedback stage returns the
\* candidates as it got them: same order, same scores, no feedback score; none
\* is blended with the 0.5 default.
C27_NoFeedbackNoBlend ==
    (/\ search_pc = "done"
     /\ ~pipeline.env.embed
     /\ pipeline.env.feedback.enabled
     /\ ~pipeline.env.feedback.throws
     /\ (pipeline.env.feedback.relevant = <<>> \/ pipeline.reranked = <<>>)) =>
        /\ pipeline.fused = pipeline.reranked
        /\ \A i \in 1..Len(pipeline.fused) : pipeline.fused[i].feedback_score = None

\* the case of C27: fusion is enabled, nothing similar is stored, and there
\* are candidates, which another outcome of the feedback lookup would reorder
C27_Witness ==
    /\ search_pc = "done"
    /\ ~pipeline.env.embed
    /\ pipeline.env.feedback.enabled
    /\ ~pipeline.env.feedback.throws
    /\ pipeline.env.feedback.relevant = <<>>
    /\ Len(pipeline.reranked) >= 2
    /\ pipeline.fused = pipeline.reranked

\* the pairs some call was made on
CalledPairs == {<<updates[c].call.user_id, updates[c].call.collection_name>> : c \in DOMAIN updates}

\* C29: distinct (user_id, collection_name) pairs have distinct keys, so the
\* calls made on one pair never change the file list of another pair: a pair no
\* call was made on keeps its empty file list, also when a user id or a
\* collection name contains "_".
C29_TenantIsolation ==
    \A q \in Pairs :
        q \notin CalledPairs => get_collection_files(mapping, q[1], q[2]) = <<>>

RECURSIVE SerialOutcomes(_, _)
\* the mappings the calls of S leave when they run one after another, in any order
SerialOutcomes(S, m) ==
    IF S = {} THEN {m}
    ELSE UNION {SerialOutcomes(S \ {c}, modified_mapping(m, updates[c].call)) : c \in S}

\* C30: when interleaved add_file_to_collection and remove_file_from_collection
\* calls have all finished, the stored mapping reflects every one of them: it
\* is what the calls give when run one after another in some order.
C30_NoLostUpdate ==
    (updates # <<>> /\ \A c \in DOMAIN updates : updates[c].pc = "done") =>
        mapping \in SerialOutcomes(DOMAIN updates, <<>>)

====
